---- MODULE Spec2Model ----
(***************************************************************************)
(* VPS-automation: the three booking scripts as one state machine.         *)
(*                                                                         *)
(*   unified_booking.py  main / book_client: one browser per subject,      *)
(*                       sequential or parallel (ThreadPoolExecutor).      *)
(*   book_vfs.py         VFSBot.run: one browser, login, poll, then        *)
(*                       fill_booking_form for each client in turn.        *)
(*   run_booking.py      main / monitor_and_book / book_client: one        *)
(*                       browser, login, poll, then book each client.      *)
(*                                                                         *)
(* The browser transport is the environment: every call into it may        *)
(* succeed, fail (element not found / click rejected) or raise.            *)
(*                                                                         *)
(* The helpers the scripts share in kind (the Cloudflare wait, the         *)
(* selector-list lookup, the slot detector, the availability monitor) are  *)
(* modelled on their own, each with its own specification, further down.   *)
(***************************************************************************)
EXTENDS Integers, Sequences, FiniteSets, TLC

\* Rows of clients.csv considered (subjects are numbered by row, from 1).
MaxRows == 2
\* Poll cycles of the availability monitor before its deadline passes.
MaxPolls == 2
\* Longest Cloudflare wait enumerated, in sleep intervals of its loop.
MaxWait == 3
\* Longest selector list enumerated for a lookup.
MaxCands == 3
\* Longest lookup timeout enumerated, in sleep intervals of its loop.
MaxBudget == 2
\* Most elements a page holds that match the slot selectors.
MaxEls == 2
\* Longest monitoring window and longest poll interval enumerated, in ticks.
MaxDeadline == 16
MaxInterval == 4
\* Longest time enumerated for the reload of one poll cycle, in ticks.
MaxWork == 1
\* Most clients of one run whose slot selections are followed.
MaxSubjects == 3
\* Most slot elements one selector of the slot step matches.
MaxSlots == 3
\* Number of slot selectors of the slot step that are enumerated.
MaxSlotSels == 2
\* Most options in the list of a dropdown.
MaxOptions == 2
\* Seconds on the wall clock while the sessions of one parallel run work.
MaxShotClock == 2

\* Clients of the parallel scenario with one stuck subject among them.
ScenarioRows == 3
\* The longest client list of any run enumerated.
MostRows == IF MaxRows > ScenarioRows THEN MaxRows ELSE ScenarioRows

Subjects == 1..MostRows
\* Runner 0 is the script-level runner of book_vfs / run_booking (VFSBot.run,
\* run_booking.main); runner s >= 1 is unified_booking.book_client for subject s.
Runners  == 0..MostRows
\* Browsing contexts: 0 is the single browser of book_vfs / run_booking,
\* c >= 1 is the Chrome profile directory client_<c> of unified_booking.
CtxIds   == 0..MostRows
None     == -1

Scripts == {"unified", "book_vfs", "run_booking"}

VARIABLES
    cfg,        \* the run: script, --sequential, rows in the CSV, --max-clients
    phase,      \* position of the orchestrator (main / VFSBot.run)
    next,       \* loop index of a sequential loop over the clients
    pc,         \* pc[s]: position of subject s's run
    result,     \* result[s]: the result dict book_client builds for subject s
    driver,     \* driver[r]: the handle runner r holds (None or a context)
    ctx,        \* ctx[c]: "none" | "live" | "quit"
    used,       \* used[c]: subjects whose wizard ran in context c
    ran,        \* ran[s]: wizard steps executed for s, in order (book_vfs:
                \* the slot_index of each fill_booking_form call for s)
    failedStep, \* failedStep[s]: first step whose advance did not succeed, or 0
    page,       \* page[s]: the final page the outcome was derived from
    results,    \* the results list main aggregates
    booked,     \* VFSBot.run counter
    failed,     \* VFSBot.run counter
    polls,      \* poll cycles performed by the availability monitor
    stuck,      \* the subject whose interstitial never clears, or None
    gate,       \* a call site of the Cloudflare wait, and the wait itself
    loc,        \* one lookup of a selector list
    det,        \* one evaluation of the slot detector
    poll,       \* one run of the availability monitor against a clock
    slot,       \* the slot selections of the subjects of one run
    fill,       \* one call of a field filler on one control
    agg,        \* one parallel fan-out: the futures and as_completed
    unit        \* the helper under study in the last specifications

booking == <<cfg, phase, next, pc, result, driver, ctx, used, ran, failedStep,
             page, results, booked, failed, polls>>

\* The helpers' variables, which the scripts' actions leave alone.
units == <<stuck, gate, loc, det, poll, slot, fill, agg, unit>>

vars == <<booking, units>>

\* What the helpers studied through `unit` leave alone.
others == <<booking, stuck, gate, loc, det, poll, slot, fill, agg>>

\* A slice that keeps every row.
SliceLenAll(n, m) == n

----------------------------------------------------------------------------
\* clients = rows[: max_clients]  (Python slice semantics)
SliceLen(n, m) ==
    IF m >= 0 THEN (IF n < m THEN n ELSE m)
    ELSE (IF n + m > 0 THEN n + m ELSE 0)

\* book_vfs.load_clients: append, then stop once len(clients) >= max_n
LoadLen(n, m) ==
    IF n = 0 THEN 0
    ELSE IF m <= 1 THEN 1
    ELSE IF n < m THEN n ELSE m

NumClients ==
    IF cfg.script = "book_vfs" THEN LoadLen(cfg.rows, cfg.max_clients)
    ELSE SliceLen(cfg.rows, cfg.max_clients)

Clients == 1..NumClients

----------------------------------------------------------------------------
\* Final pages (fixtures of the environment).  ref: a reference-bearing
\* element with text; phrase: a positive confirmation phrase in the text;
\* heading: a generic strong/h2/h3 with text; token: a run of 6..20
\* capitals/digits somewhere in the page source; url: where the browser is.
PageConfirmedRef == [ref |-> TRUE,  phrase |-> TRUE,  heading |-> TRUE,  token |-> TRUE,  url |-> "off"]
PageOffBlank     == [ref |-> FALSE, phrase |-> FALSE, heading |-> FALSE, token |-> FALSE, url |-> "off"]
PageFormHeading  == [ref |-> FALSE, phrase |-> FALSE, heading |-> TRUE,  token |-> TRUE,  url |-> "form"]
PageFormBlank    == [ref |-> FALSE, phrase |-> FALSE, heading |-> FALSE, token |-> FALSE, url |-> "form"]
NoPage           == [ref |-> FALSE, phrase |-> FALSE, heading |-> FALSE, token |-> FALSE, url |-> "none"]

Pages == {PageConfirmedRef, PageOffBlank, PageFormHeading, PageFormBlank}

----------------------------------------------------------------------------
\* unified_booking.book_client: the result dict at entry
NewResult == [status |-> "FAILED", reference |-> "", error |-> ""]

\* unified_booking.book_client: profile = CHROME_PROFILE/client_<idx>
ProfileOf(idx) == idx

\* unified_booking.do_step5_review_confirm: text of the first confirm_ref
\* selector that matches an element with text, else None ("" here)
ConfirmRefText(p) ==
    IF p.ref THEN "REF"
    ELSE IF p.heading THEN "HEADING"
    ELSE ""

\* A classification that reports BOOKED whatever do_step5 returned.
ClassifyBooked(r, ref) == [r EXCEPT !.status = "BOOKED", !.reference = ref]

\* unified_booking.book_client: if ref: BOOKED else SUBMITTED
Classify(r, ref) ==
    IF ref # "" THEN [r EXCEPT !.status = "BOOKED", !.reference = ref]
    ELSE [r EXCEPT !.status = "SUBMITTED"]

\* The record for subject idx as it enters the results list.
Rec(idx, r) ==
    [who |-> idx, status |-> r.status, reference |-> r.reference, error |-> r.error]

\* unified_booking.main: the record appended when future.result() raises
ThreadRaisedRec(idx) ==
    [who |-> idx, status |-> "FAILED", reference |-> "", error |-> "thread raised"]

----------------------------------------------------------------------------
\* The values of the helpers' variables while no helper is under study.
GateIdle == [at |-> "idle"]
LocIdle  == [at |-> "idle"]
DetIdle  == [at |-> "idle"]
PollIdle == [at |-> "idle"]
SlotIdle == [at |-> "idle"]
FillIdle == [at |-> "idle"]
AggIdle  == [at |-> "idle"]
UnitIdle == [at |-> "idle"]

\* The command lines and CSV sizes enumerated (--sequential exists in
\* unified_booking only).
Configs ==
    {c \in [script : Scripts, sequential : BOOLEAN,
            rows : 0..MaxRows, max_clients : 0..MaxRows] :
        c.script # "unified" => c.sequential}

\* Nothing to run: the scripts stay where they start.
NoRun == [script |-> "none", sequential |-> TRUE, rows |-> 0, max_clients |-> 0]

\* The scripts at their start, for a run drawn from cfgs.
BookingInit(cfgs) ==
    /\ cfg \in cfgs
    /\ phase = "start"
    /\ next = 1
    /\ pc = [s \in Subjects |-> "idle"]
    /\ result = [s \in Subjects |-> NewResult]
    /\ driver = [r \in Runners |-> None]
    /\ ctx = [c \in CtxIds |-> "none"]
    /\ used = [c \in CtxIds |-> {}]
    /\ ran = [s \in Subjects |-> <<>>]
    /\ failedStep = [s \in Subjects |-> 0]
    /\ page = [s \in Subjects |-> NoPage]
    /\ results = <<>>
    /\ booked = 0
    /\ failed = 0
    /\ polls = 0

Init ==
    /\ unit = UnitIdle
    /\ agg = AggIdle
    /\ slot = SlotIdle
    /\ fill = FillIdle
    /\ BookingInit(Configs)
    /\ stuck = None
    /\ gate = GateIdle
    /\ loc = LocIdle
    /\ det = DetIdle
    /\ poll = PollIdle

----------------------------------------------------------------------------
(* unified_booking.py                                                      *)

\* An exception that leaves book_client instead of being caught there.
ExceptionEscapes(s) ==
    /\ result' = result
    /\ pc' = [pc EXCEPT ![s] = "finally_raise"]

\* book_client: except Exception as exc: result["error"] = str(exc)
OnException(s) ==
    /\ result' = [result EXCEPT ![s].error = "exception"]
    /\ pc' = [pc EXCEPT ![s] = "finally"]

\* An early return that sets the error and lets the session go on to the
\* booking form.
ReturnErrorGoesOn(s, msg) ==
    /\ result' = [result EXCEPT ![s].error = msg]
    /\ pc' = [pc EXCEPT ![s] = "nav"]

\* A return statement inside the try block, after result["error"] = msg.
ReturnError(s, msg) ==
    /\ result' = [result EXCEPT ![s].error = msg]
    /\ pc' = [pc EXCEPT ![s] = "finally"]

\* The step moves on to the position `to` with the result dict untouched.
Goto(s, to) ==
    /\ result' = result
    /\ pc' = [pc EXCEPT ![s] = to]

\* A run that takes the parallel branch whatever the command line says.
SequentialNever(c) == FALSE

\* main: if args.sequential:
Sequential(c) == c.sequential

\* A step that is run a second time when it is run.
RecordStepTwice(r, k) == Append(Append(r, k), k)

\* book_client calls do_step<k> once.
RecordStep(r, k) == Append(r, k)

\* The first step whose advance (its Continue / Confirm click) did not succeed.
NoteAdvance(f, k, clicked) == IF ~clicked /\ f = 0 THEN k ELSE f

\* A finally block that forgets the browser.
QuitNothing(c, d) == c

\* book_client finally: if driver: driver.quit()
Quit(c, d) == IF d # None THEN [c EXCEPT ![d] = "quit"] ELSE c

\* results.append skipped for a failed subject.
AppendUnlessFailed(rs, r) == IF r.status = "FAILED" THEN rs ELSE Append(rs, r)

\* main: results.append(r)
AppendResult(rs, r) == Append(rs, r)

\* The booking block left as soon as one subject is done.
FirstBookingDone ==
    IF Sequential(cfg) THEN next > 1
    ELSE \E s \in Clients : pc[s] = "collected"

\* main: the for loop is over / as_completed is exhausted and the pool joined
BookingsDone ==
    IF Sequential(cfg) THEN next > NumClients
    ELSE \A s \in Clients : pc[s] = "collected"

\* main: sequential loop entry, or ThreadPoolExecutor(max_workers=len(clients))
\* with every client submitted (max_workers = 0 raises ValueError).
main_start ==
    /\ cfg.script = "unified"
    /\ phase = "start"
    /\ IF Sequential(cfg)
       THEN /\ phase' = "running"
            /\ pc' = pc
       ELSE IF NumClients = 0
       THEN /\ phase' = "crashed"
            /\ pc' = pc
       ELSE /\ phase' = "running"
            /\ pc' = [s \in Subjects |-> IF s \in Clients THEN "launch" ELSE "idle"]
    /\ UNCHANGED <<units, cfg, next, result, driver, ctx, used, ran, failedStep,
                   page, results, booked, failed, polls>>

\* main, sequential: r = book_client(client, i, ...)
main_sequential_call ==
    /\ cfg.script = "unified"
    /\ phase = "running"
    /\ Sequential(cfg)
    /\ next \in Clients
    /\ pc[next] = "idle"
    /\ pc' = [pc EXCEPT ![next] = "launch"]
    /\ UNCHANGED <<units, cfg, phase, next, result, driver, ctx, used, ran,
                   failedStep, page, results, booked, failed, polls>>

\* book_client: driver = launch_driver(profile_dir=profile)
launch_driver(s) ==
    /\ cfg.script = "unified"
    /\ pc[s] = "launch"
    /\ \/ /\ Goto(s, "login")
          /\ driver' = [driver EXCEPT ![s] = ProfileOf(s)]
          /\ ctx' = [ctx EXCEPT ![ProfileOf(s)] = "live"]
          /\ used' = [used EXCEPT ![ProfileOf(s)] = @ \cup {s}]
       \/ /\ OnException(s)
          /\ UNCHANGED <<driver, ctx, used>>
    /\ UNCHANGED <<units, cfg, phase, next, ran, failedStep, page, results,
                   booked, failed, polls>>

\* A login form found on a page that is still the interstitial.
FormFoundAnyway(s) == TRUE

\* do_login: email_el, _ = _wait(driver, SEL["login_email"]) (and the
\* password field) after driver.get and _wait_cf, whose result is dropped:
\* while the page is the interstitial the form is not on it.
LoginFormFound(s) == s # stuck

\* book_client: logged_in = do_login(driver)
do_login(s) ==
    /\ cfg.script = "unified"
    /\ pc[s] = "login"
    /\ \/ LoginFormFound(s) /\ Goto(s, "nav")
       \/ ReturnError(s, "Login failed")
       \/ OnException(s)
    /\ UNCHANGED <<units, cfg, phase, next, driver, ctx, used, ran, failedStep,
                   page, results, booked, failed, polls>>

\* book_client: navigate to the booking form (button click or driver.get)
navigate_to_form(s) ==
    /\ cfg.script = "unified"
    /\ pc[s] = "nav"
    /\ \/ Goto(s, "step1")
       \/ OnException(s)
    /\ UNCHANGED <<units, cfg, phase, next, driver, ctx, used, ran, failedStep,
                   page, results, booked, failed, polls>>

\* book_client: ok = do_step1_appointment_details(...); if not ok: return
do_step1_appointment_details(s) ==
    /\ cfg.script = "unified"
    /\ pc[s] = "step1"
    /\ ran' = [ran EXCEPT ![s] = RecordStep(@, 1)]
    /\ \/ Goto(s, "step2") /\ UNCHANGED failedStep
       \/ /\ ReturnError(s, "Step 1 (Appointment Details) failed")
          /\ failedStep' = [failedStep EXCEPT ![s] = NoteAdvance(@, 1, FALSE)]
       \/ OnException(s) /\ UNCHANGED failedStep
    /\ UNCHANGED <<units, cfg, phase, next, driver, ctx, used, page, results,
                   booked, failed, polls>>

\* book_client: ok = do_step2_your_details(...); if not ok: return
do_step2_your_details(s) ==
    /\ cfg.script = "unified"
    /\ pc[s] = "step2"
    /\ ran' = [ran EXCEPT ![s] = RecordStep(@, 2)]
    /\ \/ Goto(s, "step3") /\ UNCHANGED failedStep
       \/ /\ ReturnError(s, "Step 2 (Your Details) failed")
          /\ failedStep' = [failedStep EXCEPT ![s] = NoteAdvance(@, 2, FALSE)]
       \/ OnException(s) /\ UNCHANGED failedStep
    /\ UNCHANGED <<units, cfg, phase, next, driver, ctx, used, page, results,
                   booked, failed, polls>>

\* book_client: do_step3_book_appointment(driver)   (return value dropped)
do_step3_book_appointment(s) ==
    /\ cfg.script = "unified"
    /\ pc[s] = "step3"
    /\ ran' = [ran EXCEPT ![s] = RecordStep(@, 3)]
    /\ \/ \E clicked \in BOOLEAN :
            /\ Goto(s, "step4")
            /\ failedStep' = [failedStep EXCEPT ![s] = NoteAdvance(@, 3, clicked)]
       \/ OnException(s) /\ UNCHANGED failedStep
    /\ UNCHANGED <<units, cfg, phase, next, driver, ctx, used, page, results,
                   booked, failed, polls>>

\* book_client: do_step4_services(driver)   (return value dropped)
do_step4_services(s) ==
    /\ cfg.script = "unified"
    /\ pc[s] = "step4"
    /\ ran' = [ran EXCEPT ![s] = RecordStep(@, 4)]
    /\ \/ \E clicked \in BOOLEAN :
            /\ Goto(s, "step5")
            /\ failedStep' = [failedStep EXCEPT ![s] = NoteAdvance(@, 4, clicked)]
       \/ OnException(s) /\ UNCHANGED failedStep
    /\ UNCHANGED <<units, cfg, phase, next, driver, ctx, used, page, results,
                   booked, failed, polls>>

\* book_client: ref = do_step5_review_confirm(driver); BOOKED if ref else
\* SUBMITTED.  The Confirm click's outcome is not looked at.
do_step5_review_confirm(s) ==
    /\ cfg.script = "unified"
    /\ pc[s] = "step5"
    /\ ran' = [ran EXCEPT ![s] = RecordStep(@, 5)]
    /\ \/ \E clicked \in BOOLEAN, p \in Pages :
            /\ failedStep' = [failedStep EXCEPT ![s] = NoteAdvance(@, 5, clicked)]
            /\ page' = [page EXCEPT ![s] = p]
            /\ result' = [result EXCEPT ![s] = Classify(@, ConfirmRefText(p))]
            /\ pc' = [pc EXCEPT ![s] = "finally"]
       \/ OnException(s) /\ UNCHANGED <<failedStep, page>>
    /\ UNCHANGED <<units, cfg, phase, next, driver, ctx, used, results,
                   booked, failed, polls>>

\* book_client: finally: driver.quit(); then return result (or re-raise)
book_client_finally(s) ==
    /\ cfg.script = "unified"
    /\ pc[s] \in {"finally", "finally_raise"}
    /\ ctx' = Quit(ctx, driver[s])
    /\ pc' = [pc EXCEPT ![s] = IF pc[s] = "finally" THEN "returned" ELSE "raised"]
    /\ UNCHANGED <<units, cfg, phase, next, result, driver, used, ran, failedStep,
                   page, results, booked, failed, polls>>

\* main, sequential: results.append(r); an exception out of book_client is
\* not handled by the loop.
main_sequential_append ==
    /\ cfg.script = "unified"
    /\ phase = "running"
    /\ Sequential(cfg)
    /\ next \in Clients
    /\ pc[next] \in {"returned", "raised"}
    /\ IF pc[next] = "returned"
       THEN /\ results' = AppendResult(results, Rec(next, result[next]))
            /\ pc' = [pc EXCEPT ![next] = "collected"]
            /\ next' = next + 1
            /\ phase' = phase
       ELSE /\ phase' = "crashed"
            /\ UNCHANGED <<results, pc, next>>
    /\ UNCHANGED <<units, cfg, result, driver, ctx, used, ran, failedStep, page,
                   booked, failed, polls>>

\* main, parallel: for future in as_completed(futures): results.append(...)
main_collect(s) ==
    /\ cfg.script = "unified"
    /\ phase = "running"
    /\ ~Sequential(cfg)
    /\ s \in Clients
    /\ pc[s] \in {"returned", "raised"}
    /\ results' = AppendResult(results,
                     IF pc[s] = "returned" THEN Rec(s, result[s])
                     ELSE ThreadRaisedRec(s))
    /\ pc' = [pc EXCEPT ![s] = "collected"]
    /\ UNCHANGED <<units, cfg, phase, next, result, driver, ctx, used, ran,
                   failedStep, page, booked, failed, polls>>

\* main: the summary is logged and save_results(results) is called
main_summary ==
    /\ cfg.script = "unified"
    /\ phase = "running"
    /\ BookingsDone
    /\ phase' = "summary"
    /\ UNCHANGED <<units, cfg, next, pc, result, driver, ctx, used, ran, failedStep,
                   page, results, booked, failed, polls>>

book_client(s) ==
    \/ launch_driver(s)
    \/ do_login(s)
    \/ navigate_to_form(s)
    \/ do_step1_appointment_details(s)
    \/ do_step2_your_details(s)
    \/ do_step3_book_appointment(s)
    \/ do_step4_services(s)
    \/ do_step5_review_confirm(s)
    \/ book_client_finally(s)

unified_main ==
    \/ main_start
    \/ main_sequential_call
    \/ main_sequential_append
    \/ \E s \in Subjects : main_collect(s)
    \/ main_summary
    \/ \E s \in Subjects : book_client(s)

----------------------------------------------------------------------------
(* book_vfs.py                                                             *)

\* fill_booking_form: confirmed = any positive phrase in the page source; the
\* function returns True whether or not it is (False only on an exception).
FormFilled(p) == [status |-> "BOOKED", reference |-> "", error |-> ""]

\* fill_booking_form: except Exception: return False
FormRaised == [status |-> "FAILED", reference |-> "", error |-> "exception"]

\* main: load_clients; sys.exit(1) when none; bot.run(clients)
vfs_main ==
    /\ cfg.script = "book_vfs"
    /\ phase = "start"
    /\ phase' = IF NumClients = 0 THEN "exited" ELSE "vfs_start"
    /\ UNCHANGED <<units, cfg, next, pc, result, driver, ctx, used, ran, failedStep,
                   page, results, booked, failed, polls>>

\* VFSBot.run: self.start().  self.driver is assigned as soon as uc.Chrome
\* returns; the calls after it may still raise.
VFSBot_start ==
    /\ cfg.script = "book_vfs"
    /\ phase = "vfs_start"
    /\ \/ /\ phase' = "vfs_login"
          /\ driver' = [driver EXCEPT ![0] = 0]
          /\ ctx' = [ctx EXCEPT ![0] = "live"]
       \/ /\ phase' = "vfs_finally"
          /\ driver' = [driver EXCEPT ![0] = 0]
          /\ ctx' = [ctx EXCEPT ![0] = "live"]
       \/ /\ phase' = "vfs_finally"
          /\ UNCHANGED <<driver, ctx>>
    /\ UNCHANGED <<units, cfg, next, pc, result, used, ran, failedStep, page,
                   results, booked, failed, polls>>

\* VFSBot.run: if not self.login(...): return   (an exception leaves too)
VFSBot_login ==
    /\ cfg.script = "book_vfs"
    /\ phase = "vfs_login"
    /\ phase' \in {"vfs_nav", "vfs_finally"}
    /\ UNCHANGED <<units, cfg, next, pc, result, driver, ctx, used, ran, failedStep,
                   page, results, booked, failed, polls>>

\* VFSBot.run: if not self.navigate_to_booking(): return
VFSBot_navigate_to_booking ==
    /\ cfg.script = "book_vfs"
    /\ phase = "vfs_nav"
    /\ phase' \in {"vfs_wait", "vfs_finally"}
    /\ UNCHANGED <<units, cfg, next, pc, result, driver, ctx, used, ran, failedStep,
                   page, results, booked, failed, polls>>

\* VFSBot.wait_for_availability: one cycle of the loop before the deadline:
\* refresh, count slots; return True on n > 0, else sleep CHECK_INTERVAL
VFSBot_wait_poll ==
    /\ cfg.script = "book_vfs"
    /\ phase = "vfs_wait"
    /\ polls < MaxPolls
    /\ polls' = polls + 1
    /\ phase' \in {"vfs_fill", "vfs_wait"}
    /\ UNCHANGED <<units, cfg, next, pc, result, driver, ctx, used, ran, failedStep,
                   page, results, booked, failed>>

\* VFSBot.wait_for_availability: the deadline has passed: return False, and
\* VFSBot.run returns
VFSBot_wait_expired ==
    /\ cfg.script = "book_vfs"
    /\ phase = "vfs_wait"
    /\ phase' = "vfs_finally"
    /\ UNCHANGED <<units, cfg, next, pc, result, driver, ctx, used, ran, failedStep,
                   page, results, booked, failed, polls>>

\* An enumeration that counts from one.
EnumerateFromOne(n) == n

\* VFSBot.run: for i, client in enumerate(clients): the index i of the
\* n-th client of the list
EnumerateIndex(n) == n - 1

\* VFSBot.run: ok = self.fill_booking_form(client, slot_index=i), in the one
\* browser of the bot; booked += 1 if ok else failed += 1
VFSBot_fill_booking_form ==
    /\ cfg.script = "book_vfs"
    /\ phase = "vfs_fill"
    /\ next \in Clients
    /\ used' = [used EXCEPT ![driver[0]] = @ \cup {next}]
    /\ ran' = [ran EXCEPT ![next] = Append(@, EnumerateIndex(next))]
    /\ pc' = [pc EXCEPT ![next] = "returned"]
    /\ \/ \E clicked \in BOOLEAN, p \in Pages :
            /\ failedStep' = [failedStep EXCEPT ![next] = NoteAdvance(@, 6, clicked)]
            /\ page' = [page EXCEPT ![next] = p]
            /\ result' = [result EXCEPT ![next] = FormFilled(p)]
            /\ booked' = booked + 1
            /\ failed' = failed
       \/ /\ result' = [result EXCEPT ![next] = FormRaised]
          /\ failed' = failed + 1
          /\ UNCHANGED <<failedStep, page, booked>>
    /\ next' = next + 1
    /\ UNCHANGED <<units, cfg, phase, driver, ctx, results, polls>>

\* VFSBot.run: "Session done. Booked: .. Failed: .." and the summary file
VFSBot_summary ==
    /\ cfg.script = "book_vfs"
    /\ phase = "vfs_fill"
    /\ next > NumClients
    /\ phase' = "vfs_summary"
    /\ UNCHANGED <<units, cfg, next, pc, result, driver, ctx, used, ran, failedStep,
                   page, results, booked, failed, polls>>

\* VFSBot.run: finally: self.stop()
VFSBot_stop ==
    /\ cfg.script = "book_vfs"
    /\ phase \in {"vfs_finally", "vfs_summary"}
    /\ ctx' = Quit(ctx, driver[0])
    /\ phase' = "done"
    /\ UNCHANGED <<units, cfg, next, pc, result, driver, used, ran, failedStep,
                   page, results, booked, failed, polls>>

VFSBot_run ==
    \/ vfs_main
    \/ VFSBot_start
    \/ VFSBot_login
    \/ VFSBot_navigate_to_booking
    \/ VFSBot_wait_poll
    \/ VFSBot_wait_expired
    \/ VFSBot_fill_booking_form
    \/ VFSBot_summary
    \/ VFSBot_stop

----------------------------------------------------------------------------
(* run_booking.py                                                          *)

\* book_client: the reference: a reference element's text, else a phrase
\* element's text, else the first [A-Z0-9]{6,20} run of the page source, else
\* "CONFIRMED" when the URL holds neither book-appointment nor /login
RbReference(p) ==
    IF p.ref THEN "REF"
    ELSE IF p.phrase THEN "PHRASE"
    ELSE IF p.token THEN "TOKEN"
    ELSE IF p.url \notin {"form", "login"} THEN "CONFIRMED"
    ELSE ""

\* book_client: success = True with the reference, else the error; main's
\* summary prints success as BOOKED and anything else as FAILED
RbClassify(ref) ==
    IF ref # "" THEN [status |-> "BOOKED", reference |-> ref, error |-> ""]
    ELSE [status |-> "FAILED", reference |-> "", error |-> "No confirmation found"]

\* book_client: a result with success False and the error set
RbError(msg) == [status |-> "FAILED", reference |-> "", error |-> msg]

\* main: sys.exit(1) on an empty CSV; driver = launch_driver() before the try
rb_main_launch ==
    /\ cfg.script = "run_booking"
    /\ phase = "start"
    /\ IF cfg.rows = 0
       THEN /\ phase' = "exited"
            /\ UNCHANGED <<driver, ctx>>
       ELSE \/ /\ phase' = "rb_login"
               /\ driver' = [driver EXCEPT ![0] = 0]
               /\ ctx' = [ctx EXCEPT ![0] = "live"]
            \/ /\ phase' = "crashed"
               /\ UNCHANGED <<driver, ctx>>
    /\ UNCHANGED <<units, cfg, next, pc, result, used, ran, failedStep, page,
                   results, booked, failed, polls>>

\* main: if not do_login(...): sys.exit(1)   (inside the try)
rb_do_login ==
    /\ cfg.script = "run_booking"
    /\ phase = "rb_login"
    /\ phase' \in {"rb_monitor", "rb_finally_exit"}
    /\ UNCHANGED <<units, cfg, next, pc, result, driver, ctx, used, ran, failedStep,
                   page, results, booked, failed, polls>>

\* monitor_and_book: one check before the deadline: a Cloudflare block, no
\* slots or a poll error go round again; slots_available starts the bookings
rb_monitor_check ==
    /\ cfg.script = "run_booking"
    /\ phase = "rb_monitor"
    /\ polls < MaxPolls
    /\ polls' = polls + 1
    /\ phase' \in {"rb_book", "rb_monitor"}
    /\ UNCHANGED <<units, cfg, next, pc, result, driver, ctx, used, ran, failedStep,
                   page, results, booked, failed>>

\* monitor_and_book: the window expired: return []
rb_monitor_expired ==
    /\ cfg.script = "run_booking"
    /\ phase = "rb_monitor"
    /\ phase' = "rb_finally"
    /\ UNCHANGED <<units, cfg, next, pc, result, driver, ctx, used, ran, failedStep,
                   page, results, booked, failed, polls>>

\* monitor_and_book: res = book_client(driver, client); results.append(res),
\* every client in the browser main launched
rb_book_client ==
    /\ cfg.script = "run_booking"
    /\ phase = "rb_book"
    /\ next \in Clients
    /\ used' = [used EXCEPT ![driver[0]] = @ \cup {next}]
    /\ pc' = [pc EXCEPT ![next] = "collected"]
    /\ \/ \E clicked \in BOOLEAN, p \in Pages :
            /\ failedStep' = [failedStep EXCEPT ![next] = NoteAdvance(@, 3, clicked)]
            /\ page' = [page EXCEPT ![next] = p]
            /\ result' = [result EXCEPT ![next] = RbClassify(RbReference(p))]
       \/ \E msg \in {"Cloudflare block", "exception"} :
            /\ result' = [result EXCEPT ![next] = RbError(msg)]
            /\ UNCHANGED <<failedStep, page>>
    /\ results' = AppendResult(results, Rec(next, result'[next]))
    /\ next' = next + 1
    /\ UNCHANGED <<units, cfg, phase, driver, ctx, ran, booked, failed, polls>>

\* monitor_and_book: return results once every client was booked
rb_monitor_return ==
    /\ cfg.script = "run_booking"
    /\ phase = "rb_book"
    /\ next > NumClients
    /\ phase' = "rb_finally"
    /\ UNCHANGED <<units, cfg, next, pc, result, driver, ctx, used, ran, failedStep,
                   page, results, booked, failed, polls>>

\* main: finally: driver.quit()
rb_main_finally ==
    /\ cfg.script = "run_booking"
    /\ phase \in {"rb_finally", "rb_finally_exit"}
    /\ ctx' = Quit(ctx, driver[0])
    /\ phase' = IF phase = "rb_finally" THEN "rb_quit" ELSE "exited"
    /\ UNCHANGED <<units, cfg, next, pc, result, driver, used, ran, failedStep,
                   page, results, booked, failed, polls>>

\* main: the results file and the BOOKING SUMMARY
rb_main_summary ==
    /\ cfg.script = "run_booking"
    /\ phase = "rb_quit"
    /\ phase' = "rb_summary"
    /\ UNCHANGED <<units, cfg, next, pc, result, driver, ctx, used, ran, failedStep,
                   page, results, booked, failed, polls>>

run_booking_main ==
    \/ rb_main_launch
    \/ rb_do_login
    \/ rb_monitor_check
    \/ rb_monitor_expired
    \/ rb_book_client
    \/ rb_monitor_return
    \/ rb_main_finally
    \/ rb_main_summary

----------------------------------------------------------------------------
Next ==
    \/ unified_main
    \/ VFSBot_run
    \/ run_booking_main

Spec == Init /\ [][Next]_vars

----------------------------------------------------------------------------
(* The parallel scenario: unified_booking over ScenarioRows clients, not   *)
(* --sequential, the interstitial of one of them never clearing.           *)

ScenarioInit ==
    /\ unit = UnitIdle
    /\ agg = AggIdle
    /\ slot = SlotIdle
    /\ fill = FillIdle
    /\ BookingInit({[script |-> "unified", sequential |-> FALSE,
                     rows |-> ScenarioRows, max_clients |-> ScenarioRows]})
    /\ stuck \in 1..ScenarioRows
    /\ gate = GateIdle
    /\ loc = LocIdle
    /\ det = DetIdle
    /\ poll = PollIdle

ScenarioNext ==
    \/ main_start
    \/ \E s \in Subjects : main_collect(s)
    \/ main_summary
    \/ \E s \in Subjects : book_client(s)

ScenarioSpec == ScenarioInit /\ [][ScenarioNext]_vars

----------------------------------------------------------------------------
(* The Cloudflare wait and its call sites.                                 *)
(*   unified_booking._wait_cf          called unconditionally after get    *)
(*   book_vfs.VFSBot._wait_cf          called when _is_cf_page()           *)
(*   run_booking.wait_cf_pass          called when is_cloudflare_block()   *)
(* A call site is followed from its driver.get / refresh to the first      *)
(* thing it does with the page afterwards.  Time is counted in sleep       *)
(* intervals of the wait loop; what a check of the page sees is the        *)
(* environment's: "marker" (an interstitial marker matches), "clear", or   *)
(* "raise" (reading the page raised).                                      *)

GateSites ==
    {"unified.do_login", "unified.book_client",
     "book_vfs._goto", "book_vfs.wait_for_availability",
     "run_booking.do_login", "run_booking.book_client",
     "run_booking.monitor_and_book"}

Observations == {"marker", "clear", "raise"}

GateScript(site) ==
    IF site \in {"unified.do_login", "unified.book_client"} THEN "unified"
    ELSE IF site \in {"book_vfs._goto", "book_vfs.wait_for_availability"}
    THEN "book_vfs"
    ELSE "run_booking"

\* The site tests the page (is_cloudflare_block / _is_cf_page) and waits
\* only when it matches; unified_booking calls _wait_cf straight away.
Detects(site) == GateScript(site) # "unified"

\* A check that takes every page for clear.
UnmatchedAlways(script, obs) == TRUE

\* One check of the wait loop finds no interstitial marker.  _wait_cf reads
\* title and page_source inside try/except: pass, so a read that raises is
\* not a clear page; is_cloudflare_block and _is_cf_page return False when
\* the read raises, so for them it is.
Unmatched(script, obs) ==
    IF script = "unified" THEN obs = "clear" ELSE obs # "marker"

\* A deadline taken to have passed one tick early.
ExpiredEarly(now, deadline) == now + 1 >= deadline

\* while time.monotonic() < deadline  (negated)
Expired(now, deadline) == now >= deadline

\* What the call site does with a wait that timed out: run_booking.do_login
\* returns False and run_booking.book_client returns "Cloudflare block";
\* the other sites go on.
OnTimedOut(site) ==
    IF site \in {"run_booking.do_login", "run_booking.book_client"}
    THEN "fail" ELSE "proceed"

GateInit ==
    /\ unit = UnitIdle
    /\ agg = AggIdle
    /\ slot = SlotIdle
    /\ fill = FillIdle
    /\ BookingInit({NoRun})
    /\ stuck = None
    /\ gate \in {[at |-> "get", site |-> s, wait |-> w, now |-> 0,
                  deadline |-> 0, seen |-> <<>>, out |-> "none",
                  next |-> "none", trace |-> <<>>] :
                     s \in GateSites, w \in 1..MaxWait}
    /\ loc = LocIdle
    /\ det = DetIdle
    /\ poll = PollIdle

\* driver.get(url) / driver.refresh().  VFSBot._goto catches the
\* WebDriverException of a page-load timeout and goes on; elsewhere an
\* exception leaves the site.
gate_get ==
    /\ gate.at = "get"
    /\ \/ IF Detects(gate.site)
          THEN gate' = [gate EXCEPT !.at = "detect",
                                    !.trace = Append(@, "nav")]
          ELSE gate' = [gate EXCEPT !.at = "wait",
                                    !.deadline = gate.now + gate.wait,
                                    !.trace = @ \o <<"nav", "gate">>]
       \/ /\ gate.site # "book_vfs._goto"
          /\ gate' = [gate EXCEPT !.at = "done", !.next = "raised"]
    /\ UNCHANGED <<booking, stuck, loc, det, poll, slot, fill, agg, unit>>

\* if is_cloudflare_block(driver): / if self._is_cf_page():
gate_detect ==
    /\ gate.at = "detect"
    /\ \E obs \in Observations :
         IF ~Unmatched(GateScript(gate.site), obs)
         THEN gate' = [gate EXCEPT !.at = "wait",
                                   !.deadline = gate.now + gate.wait,
                                   !.trace = Append(@, "gate")]
         ELSE gate' = [gate EXCEPT !.at = "return",
                                   !.trace = Append(@, "gate")]
    /\ UNCHANGED <<booking, stuck, loc, det, poll, slot, fill, agg, unit>>

\* unified_booking._wait_cf: one pass of the loop (sleep 0.8, read the
\* page, return True when clear), or the return False after it
unified_wait_cf ==
    /\ gate.at = "wait"
    /\ GateScript(gate.site) = "unified"
    /\ IF Expired(gate.now, gate.deadline)
       THEN gate' = [gate EXCEPT !.at = "return", !.out = "TimedOut"]
       ELSE \E obs \in Observations, d \in 1..2 :
              IF Unmatched("unified", obs)
              THEN gate' = [gate EXCEPT !.at = "return", !.out = "Cleared",
                                        !.now = @ + d, !.seen = Append(@, obs)]
              ELSE gate' = [gate EXCEPT !.now = @ + d, !.seen = Append(@, obs)]
    /\ UNCHANGED <<booking, stuck, loc, det, poll, slot, fill, agg, unit>>

\* book_vfs.VFSBot._wait_cf: one pass of the loop (return True when not
\* _is_cf_page(), else sleep 4), or the return False after it
VFSBot_wait_cf ==
    /\ gate.at = "wait"
    /\ GateScript(gate.site) = "book_vfs"
    /\ IF Expired(gate.now, gate.deadline)
       THEN gate' = [gate EXCEPT !.at = "return", !.out = "TimedOut"]
       ELSE \E obs \in Observations, d \in 1..2 :
              IF Unmatched("book_vfs", obs)
              THEN gate' = [gate EXCEPT !.at = "return", !.out = "Cleared",
                                        !.seen = Append(@, obs)]
              ELSE gate' = [gate EXCEPT !.now = @ + d, !.seen = Append(@, obs)]
    /\ UNCHANGED <<booking, stuck, loc, det, poll, slot, fill, agg, unit>>

\* run_booking.wait_cf_pass: one pass of the loop (sleep 3, return True
\* when not is_cloudflare_block), or the return False after it
wait_cf_pass ==
    /\ gate.at = "wait"
    /\ GateScript(gate.site) = "run_booking"
    /\ IF Expired(gate.now, gate.deadline)
       THEN gate' = [gate EXCEPT !.at = "return", !.out = "TimedOut"]
       ELSE \E obs \in Observations, d \in 1..2 :
              IF Unmatched("run_booking", obs)
              THEN gate' = [gate EXCEPT !.at = "return", !.out = "Cleared",
                                        !.now = @ + d, !.seen = Append(@, obs)]
              ELSE gate' = [gate EXCEPT !.now = @ + d, !.seen = Append(@, obs)]
    /\ UNCHANGED <<booking, stuck, loc, det, poll, slot, fill, agg, unit>>

\* The call site after the test / the wait:
\*   run_booking.do_login, book_client: a timed-out wait is returned as a
\*     failure; do_login after a passed wait loads LOGIN_URL again and goes
\*     on to the cookie banner and the form;
\*   run_booking.monitor_and_book: continue, i.e. the next check;
\*   everywhere else the next statement looks up elements of the page.
gate_return ==
    /\ gate.at = "return"
    /\ gate' =
         IF gate.out = "TimedOut" /\ OnTimedOut(gate.site) = "fail"
         THEN [gate EXCEPT !.at = "done", !.next = "fail"]
         ELSE IF gate.site = "run_booking.do_login" /\ gate.out = "Cleared"
         THEN [gate EXCEPT !.at = "done", !.next = "proceed",
                           !.trace = @ \o <<"nav", "locate">>]
         ELSE IF gate.site = "run_booking.monitor_and_book" /\ gate.out # "none"
         THEN [gate EXCEPT !.at = "done", !.next = "proceed"]
         ELSE [gate EXCEPT !.at = "done", !.next = "proceed",
                           !.trace = Append(@, "locate")]
    /\ UNCHANGED <<booking, stuck, loc, det, poll, slot, fill, agg, unit>>

GateNext ==
    \/ gate_get
    \/ gate_detect
    \/ unified_wait_cf
    \/ VFSBot_wait_cf
    \/ wait_cf_pass
    \/ gate_return

GateSpec == GateInit /\ [][GateNext]_vars

\* Every call of the browser returns or raises, and the script keeps running.
GateLive == GateSpec /\ WF_vars(GateNext)

----------------------------------------------------------------------------
(* The lookup of a selector list.                                          *)
(*   unified_booking._wait / _wait_xpath, run_booking.find_first: until    *)
(*     the deadline, sweep the whole list, return the first selector whose *)
(*     element is displayed, sleep, sweep again;                           *)
(*   book_vfs.VFSBot._fill_input: for each selector in turn, _find_el      *)
(*     waits up to its own timeout for the element to be visible.          *)
(* dom[c] is what find_element and is_displayed give for selector c on the *)
(* page as it is: "absent" (find_element raises), "hidden" (an element,    *)
(* not displayed) or "visible".                                            *)

Sweepers == {"_wait", "find_first"}
Lookups  == Sweepers \cup {"_fill_input"}
Status   == {"absent", "hidden", "visible"}

\* A lookup that takes any element it finds.
Located(st) == st # "absent"

\* el = driver.find_element(...); if el.is_displayed(): return el
Displayed(st) == st = "visible"

\* A selector list cut after its first entry.
NoMoreCandidates(i, n) == FALSE

\* for sel in selectors:  (another selector follows selector i)
MoreCandidates(i, n) == i < n

\* WebDriverWait.until under _find_el: the wait is over once now > end_time
WaitEnded(now, end) == now > end

LocInit ==
    /\ unit = UnitIdle
    /\ agg = AggIdle
    /\ slot = SlotIdle
    /\ fill = FillIdle
    /\ BookingInit({NoRun})
    /\ stuck = None
    /\ gate = GateIdle
    /\ loc \in {l \in {[at |-> "probe", fn |-> f, n |-> n, static |-> st,
                         dom |-> d, now |-> 0, budget |-> b, deadline |-> b,
                         i |-> 1,
                         last |-> [c \in 1..MaxCands |-> "unprobed"],
                         spent |-> {}, ret |-> None] :
                            f \in Lookups, n \in 1..MaxCands, st \in BOOLEAN,
                            b \in 1..MaxBudget,
                            d \in [1..MaxCands -> Status]} :
                    \A c \in 1..MaxCands : c > l.n => l.dom[c] = "absent"}
    /\ det = DetIdle
    /\ poll = PollIdle

\* The page re-renders under the lookup (not on a static page).
page_changes ==
    /\ loc.at \in {"probe", "sleep"}
    /\ ~loc.static
    /\ \E c \in 1..loc.n, st \in Status :
         /\ st # loc.dom[c]
         /\ loc' = [loc EXCEPT !.dom[c] = st]
    /\ UNCHANGED <<booking, stuck, gate, det, poll, slot, fill, agg, unit>>

\* _wait / find_first: the body of  for sel in selectors
wait_probe ==
    /\ loc.at = "probe"
    /\ loc.fn \in Sweepers
    /\ LET st == loc.dom[loc.i]
           seen == [loc EXCEPT !.last[loc.i] = st]
       IN  loc' = IF Displayed(st)
                  THEN [seen EXCEPT !.at = "done", !.ret = loc.i]
                  ELSE IF MoreCandidates(loc.i, loc.n)
                  THEN [seen EXCEPT !.i = @ + 1]
                  ELSE [seen EXCEPT !.at = "sleep"]
    /\ UNCHANGED <<booking, stuck, gate, det, poll, slot, fill, agg, unit>>

\* _wait / find_first: time.sleep(..) after a sweep, then the loop test:
\* sweep again, or return (None, None)
wait_sleep ==
    /\ loc.at = "sleep"
    /\ loc.fn \in Sweepers
    /\ \E d \in 1..2 :
         loc' = IF Expired(loc.now + d, loc.deadline)
                THEN [loc EXCEPT !.now = @ + d, !.at = "done", !.ret = 0,
                                 !.spent = 1..loc.n]
                ELSE [loc EXCEPT !.now = @ + d, !.at = "probe", !.i = 1]
    /\ UNCHANGED <<booking, stuck, gate, det, poll, slot, fill, agg, unit>>

\* VFSBot._fill_input: el = _find_el(self.driver, sel, timeout=2.0), one
\* poll of its WebDriverWait: the element if visible, else sleep and, the
\* wait being over, None and the next selector (or return False)
fill_input_find_el ==
    /\ loc.at = "probe"
    /\ loc.fn = "_fill_input"
    /\ LET st == loc.dom[loc.i]
           seen == [loc EXCEPT !.last[loc.i] = st]
       IN  IF Displayed(st)
           THEN loc' = [seen EXCEPT !.at = "done", !.ret = loc.i]
           ELSE \E d \in 1..2 :
                  loc' = IF ~WaitEnded(loc.now + d, loc.deadline)
                         THEN [seen EXCEPT !.now = @ + d]
                         ELSE IF MoreCandidates(loc.i, loc.n)
                         THEN [seen EXCEPT !.now = @ + d, !.i = @ + 1,
                                           !.spent = @ \cup {loc.i},
                                           !.deadline = loc.now + d + loc.budget]
                         ELSE [seen EXCEPT !.now = @ + d, !.at = "done",
                                           !.ret = 0,
                                           !.spent = @ \cup {loc.i}]
    /\ UNCHANGED <<booking, stuck, gate, det, poll, slot, fill, agg, unit>>

LocNext ==
    \/ page_changes
    \/ wait_probe
    \/ wait_sleep
    \/ fill_input_find_el

LocSpec == LocInit /\ [][LocNext]_vars

----------------------------------------------------------------------------
(* The slot detector: run_booking.slots_available, book_vfs._count_slots.  *)
(* A page, as the detector can tell pages apart:                           *)
(*   readable  driver.page_source returns (else it raises)                 *)
(*   marker    an interstitial marker of the script is in the source       *)
(*   negative  a no-availability phrase is in the source                   *)
(*   els       number of elements matching one of the slot selectors       *)
(*   shown     one of them is displayed                                    *)
(*   phrase    a positive phrase is in the source                          *)

Detectors == {"run_booking", "book_vfs"}

SlotPages ==
    {p \in [readable : BOOLEAN, marker : BOOLEAN, negative : BOOLEAN,
            els : 0..MaxEls, shown : BOOLEAN, phrase : BOOLEAN] :
        p.shown => p.els > 0}

\* A detector that looks at the slot selectors and phrases only.
SlotsAvailableStale(p) == p.readable /\ (p.shown \/ p.phrase)

\* run_booking.slots_available
SlotsAvailable(p) ==
    IF ~p.readable THEN FALSE
    ELSE IF p.marker THEN FALSE
    ELSE IF p.negative THEN FALSE
    ELSE IF p.els > 0 /\ p.shown THEN TRUE
    ELSE IF p.phrase THEN TRUE
    ELSE FALSE

\* A count that falls back to one slot when nothing was found.
CountSlotsOptimistic(p) ==
    IF ~p.readable THEN 0
    ELSE IF p.negative THEN 0
    ELSE IF p.els > 0 THEN p.els
    ELSE 1

\* book_vfs.VFSBot._count_slots
CountSlots(p) ==
    IF ~p.readable THEN 0
    ELSE IF p.negative THEN 0
    ELSE IF p.els > 0 THEN p.els
    ELSE IF p.phrase THEN 1
    ELSE 0

DetInit ==
    /\ unit = UnitIdle
    /\ agg = AggIdle
    /\ slot = SlotIdle
    /\ fill = FillIdle
    /\ BookingInit({NoRun})
    /\ stuck = None
    /\ gate = GateIdle
    /\ loc = LocIdle
    /\ det \in {[at |-> "page", script |-> s, page |-> p, n |-> 0,
                 out |-> "none"] : s \in Detectors, p \in SlotPages}
    /\ poll = PollIdle

\* monitor_and_book: if slots_available(driver):
slots_available ==
    /\ det.at = "page"
    /\ det.script = "run_booking"
    /\ det' = [det EXCEPT !.at = "done",
                          !.out = IF SlotsAvailable(det.page)
                                  THEN "available" ELSE "unavailable"]
    /\ UNCHANGED <<booking, stuck, gate, loc, poll, slot, fill, agg, unit>>

\* wait_for_availability: n = self._count_slots(); if n > 0:
VFSBot_count_slots ==
    /\ det.at = "page"
    /\ det.script = "book_vfs"
    /\ det' = [det EXCEPT !.at = "done",
                          !.n = CountSlots(det.page),
                          !.out = IF CountSlots(det.page) > 0
                                  THEN "available" ELSE "unavailable"]
    /\ UNCHANGED <<booking, stuck, gate, loc, poll, slot, fill, agg, unit>>

DetNext ==
    \/ slots_available
    \/ VFSBot_count_slots

DetSpec == DetInit /\ [][DetNext]_vars

----------------------------------------------------------------------------
(* The availability monitor against a clock: book_vfs                      *)
(* wait_for_availability, run_booking monitor_and_book.  The positive      *)
(* signal is on the page from time `appear` on (None: never); until then   *)
(* the page shows nothing.  Reloading the page and settling (refresh /     *)
(* driver.get and the short delay after it) takes `work` ticks of every    *)
(* cycle; times[k] is when cycle k asked the detector.                     *)

NoSlotsPage ==
    [readable |-> TRUE, marker |-> FALSE, negative |-> FALSE,
     els |-> 0, shown |-> FALSE, phrase |-> FALSE]

SlotsPage ==
    [readable |-> TRUE, marker |-> FALSE, negative |-> FALSE,
     els |-> 1, shown |-> TRUE, phrase |-> FALSE]

\* The page a reload at time now brings.
PageAt(now, appear) ==
    IF appear # None /\ now >= appear THEN SlotsPage ELSE NoSlotsPage

\* The detector of the script says there are slots.
Detect(script, p) ==
    IF script = "book_vfs" THEN CountSlots(p) > 0 ELSE SlotsAvailable(p)

\* A sleep that does not return.
SleepsForever(script, interval) == {}

\* time.sleep(CHECK_INTERVAL) in book_vfs; time.sleep(random.uniform(10, 20))
\* in run_booking, anything from half the longest sleep up
Sleeps(script, interval) ==
    IF script = "book_vfs" THEN {interval}
    ELSE {d \in 1..interval : 2 * d >= interval}

PollInit ==
    /\ unit = UnitIdle
    /\ agg = AggIdle
    /\ slot = SlotIdle
    /\ fill = FillIdle
    /\ BookingInit({NoRun})
    /\ stuck = None
    /\ gate = GateIdle
    /\ loc = LocIdle
    /\ det = DetIdle
    /\ poll \in {q \in {[at |-> "loop", script |-> s, deadline |-> dl,
                         interval |-> iv, work |-> w, appear |-> ap,
                         now |-> 0, cycles |-> 0, times |-> <<>>,
                         seenAt |-> None, errors |-> 0, out |-> "none"] :
                            s \in Detectors, dl \in 1..MaxDeadline,
                            iv \in 1..MaxInterval, w \in 0..MaxWork,
                            ap \in {None} \cup 0..MaxDeadline} :
                    q.appear < q.deadline}

\* One turn of the while loop of wait_for_availability / monitor_and_book:
\* past the deadline, return False / []; else reload the page and ask the
\* detector: slots end the monitor at once; no slots, or an exception
\* anywhere in the cycle ("Poll error"), are followed by the sleep.
monitor_cycle ==
    /\ poll.at = "loop"
    /\ IF Expired(poll.now, poll.deadline)
       THEN poll' = [poll EXCEPT !.at = "done", !.out = "Expired"]
       ELSE LET asked == poll.now + poll.work
                slots == Detect(poll.script, PageAt(asked, poll.appear))
            IN  \/ /\ slots
                   /\ poll' = [poll EXCEPT !.at = "done", !.out = "Available",
                                           !.cycles = @ + 1,
                                           !.times = Append(@, asked),
                                           !.now = asked,
                                           !.seenAt = asked]
                \/ /\ ~slots
                   /\ \E d \in Sleeps(poll.script, poll.interval) :
                        poll' = [poll EXCEPT !.cycles = @ + 1,
                                             !.times = Append(@, asked),
                                             !.now = asked + d]
                \/ /\ poll.errors = 0
                   /\ \E d \in Sleeps(poll.script, poll.interval) :
                        poll' = [poll EXCEPT !.cycles = @ + 1,
                                             !.times = Append(@, asked),
                                             !.now = asked + d,
                                             !.errors = 1]
    /\ UNCHANGED <<booking, stuck, gate, loc, det, slot, fill, agg, unit>>

PollNext == monitor_cycle

PollSpec == PollInit /\ [][PollNext]_vars

----------------------------------------------------------------------------
(* Slot selection.  One run of k subjects; every subject reaches the slot  *)
(* step once and sees a page on which selector c of the slot step matches  *)
(* els[c] elements.  book_vfs serves its clients in order and passes the   *)
(* loop index as slot_index; the subjects of unified_booking reach the     *)
(* step in any order.  picks holds, per subject served, its position in    *)
(* the clients list (from 0), the slots enumerated and the index clicked.  *)

SlotViews == [1..MaxSlotSels -> 0..MaxSlots]

\* for slot_sel in [...]: slots = _find_els(...); if slots: ... break
\* the first selector of the list that matches anything, or 0
FirstListed(els) ==
    IF \E c \in 1..MaxSlotSels : els[c] > 0
    THEN CHOOSE c \in 1..MaxSlotSels :
            els[c] > 0 /\ \A b \in 1..(c - 1) : els[b] = 0
    ELSE 0

\* The slot elements the step enumerates.
SlotCount(els) == IF FirstListed(els) = 0 THEN 0 ELSE els[FirstListed(els)]

\* idx = slot_index % len(slots)
SlotIndex(slot_index, n) == slot_index % n

\* _wait(driver, SEL["first_slot"]): find_element returns the first match
\* in document order of a ":first-of-type" selector
FirstSlot(n) == 0

SlotInit ==
    /\ unit = UnitIdle
    /\ agg = AggIdle
    /\ slot \in [at : {"run"}, script : {"book_vfs", "unified"},
                 k : 1..MaxSubjects, picks : {{}}]
    /\ fill = FillIdle
    /\ BookingInit({NoRun})
    /\ stuck = None
    /\ gate = GateIdle
    /\ loc = LocIdle
    /\ det = DetIdle
    /\ poll = PollIdle

\* VFSBot.run: fill_booking_form(client, slot_index=i), step 4 of the form
fill_booking_form_slot ==
    /\ slot.at = "run"
    /\ slot.script = "book_vfs"
    /\ Cardinality(slot.picks) < slot.k
    /\ \E els \in SlotViews :
         LET i == Cardinality(slot.picks)
             n == SlotCount(els)
         IN  slot' = [slot EXCEPT !.picks = @ \cup
                        {[pos |-> i, n |-> n,
                          idx |-> IF n = 0 THEN None ELSE SlotIndex(i, n)]}]
    /\ UNCHANGED <<booking, stuck, gate, loc, det, poll, fill, agg, unit>>

\* book_client(client, idx, total): do_step3_book_appointment(driver)
do_step3_first_slot ==
    /\ slot.at = "run"
    /\ slot.script = "unified"
    /\ \E i \in 0..(slot.k - 1), els \in SlotViews :
         LET n == SlotCount(els)
         IN  /\ \A e \in slot.picks : e.pos # i
             /\ slot' = [slot EXCEPT !.picks = @ \cup
                           {[pos |-> i, n |-> n,
                             idx |-> IF n = 0 THEN None ELSE FirstSlot(n)]}]
    /\ UNCHANGED <<booking, stuck, gate, loc, det, poll, fill, agg, unit>>

\* Every client of the run has been through the slot step.
slot_run_done ==
    /\ slot.at = "run"
    /\ Cardinality(slot.picks) = slot.k
    /\ slot' = [slot EXCEPT !.at = "done"]
    /\ UNCHANGED <<booking, stuck, gate, loc, det, poll, fill, agg, unit>>

SlotNext == fill_booking_form_slot \/ do_step3_first_slot \/ slot_run_done

SlotSpec == SlotInit /\ [][SlotNext]_vars

----------------------------------------------------------------------------
(* Field fillers.  One control of one page and one or two calls of a       *)
(* filler on it: _mat_select (unified_booking), mat_select (run_booking),  *)
(* _select_mat (book_vfs), _js_fill and _fill_date (unified_booking).      *)
(* Texts are sequences of characters.  The page is fixed over the calls:   *)
(* tag is what the control's selectors resolve to, opts the texts of the   *)
(* options in document order, populated whether the option list appears    *)
(* within the wait.  content is the control's value, open whether its      *)
(* dropdown is showing, ret what the call returned ("True", "False", or    *)
(* "raised" for an exception).  What is not fixed is which browser calls   *)
(* fail.                                                                   *)

SelectFns == {"_mat_select", "mat_select", "_select_mat"}
FillFns   == {"_js_fill", "_fill_date"}

\* Option texts and requested texts of the pages enumerated.
OptTexts    == {<<"a">>, <<"A">>, <<"a", "b">>, <<"b">>}
SelectTexts == {<<>>, <<"a">>, <<"A">>}
FillValues  == {<<>>, <<"a">>, <<"a", "b">>}
OptionLists == UNION {[1..n -> OptTexts] : n \in 0..MaxOptions}

\* str.lower()
Lower(t) == [i \in 1..Len(t) |-> IF t[i] = "A" THEN "a"
                                 ELSE IF t[i] = "B" THEN "b" ELSE t[i]]

\* sub in t  /  XPath contains(t, sub)
Contains(t, sub) ==
    \E k \in 0..(Len(t) - Len(sub)) : SubSeq(t, k + 1, k + Len(sub)) = sub

\* opt_text.lower() == target, target = text.strip().lower()
StrictMatch(opt, text) == Lower(opt) = Lower(text)

\* target in opt_text.lower()  /  option_text.lower() in opt.text.lower()
LooseMatch(opt, text) == Contains(Lower(opt), Lower(text))

\* //mat-option[contains(normalize-space(.), '<text>')]
XPathContains(opt, text) == Contains(opt, text)

\* The first of the options whose indices are in hits, or 0 (for opt in
\* options: if match: ... return True).
FirstOption(hits) ==
    IF hits = {} THEN 0 ELSE CHOOSE i \in hits : \A j \in hits : i <= j

\* unified _mat_select: for strict in (True, False): for opt in options;
\* stale holds the <<pass, option>> reads that raised
\* StaleElementReferenceException (continue)
MatPick(options, text, stale) ==
    LET strict == FirstOption({i \in 1..Len(options) :
                      <<1, i>> \notin stale /\ StrictMatch(options[i], text)})
    IN  IF strict # 0 THEN strict
        ELSE FirstOption({i \in 1..Len(options) :
                      <<2, i>> \notin stale /\ LooseMatch(options[i], text)})

\* unified _native_select: the first option equal to or containing target
NativePick(options, text) ==
    FirstOption({i \in 1..Len(options) :
        StrictMatch(options[i], text) \/ LooseMatch(options[i], text)})

\* book_vfs _select_mat: //mat-option[contains(., "<value>")]
VfsPick(options, text) ==
    FirstOption({i \in 1..Len(options) : XPathContains(options[i], text)})

\* run_booking mat_select: the first option the XPath locates, else the
\* first whose lowered text contains the lowered request; bad holds the
\* options whose read or click raised in the second loop (pass)
RbPick(options, text, bad) ==
    LET located == FirstOption({i \in 1..Len(options) :
                       XPathContains(options[i], text)})
    IN  IF located # 0 THEN located
        ELSE FirstOption({i \in 1..Len(options) :
                 i \notin bad /\ LooseMatch(options[i], text)})

\* Select(el).select_by_visible_text(value)
VisibleTextPick(options, text) ==
    FirstOption({i \in 1..Len(options) : options[i] = text})

\* An exception of a browser call leaves the filler.
FaultEscapes(fn) == "raised"

\* except Exception: ... return False  (every browser call of the fillers
\* is inside a try; in _select_mat the handler passes and the function
\* ends in return False)
FaultResult(fn) == "False"

\* A click on an option of a multiple-choice list, which toggles it.
ToggleOption(content, opt) == IF content = opt THEN <<>> ELSE opt

\* driver.execute_script("arguments[0].click();", opt) / opt.click(): the
\* control takes the option's text as its value
ClickOption(content, opt) == opt

\* Every outcome of the direct channel taken as a success.
AcceptedAlways(outcome) == TRUE

\* if ok: return True
Accepted(outcome) == outcome = "ok"

\* What the direct channel can answer: the script returned true, returned
\* false (querySelector found nothing; _js_fill only), or raised.
DirectOutcomes(fn) ==
    IF fn = "_js_fill" THEN {"ok", "false", "raises"} ELSE {"ok", "raises"}

FieldCall(fn, text, opts, tag, populated, content) ==
    [at |-> "call", fn |-> fn, text |-> text, opts |-> opts, tag |-> tag,
     populated |-> populated, content |-> content, open |-> FALSE,
     opened |-> FALSE, picked |-> 0, ret |-> "none", direct |-> "none",
     keys |-> "none", calls |-> 1, afterFirst |-> <<>>, faulted |-> FALSE]

\* What the selectors of the control can resolve to: a mat-select, a plain
\* <select>, nothing, or (unified) nothing but a <select> under the
\* selectors with mat-select replaced by select.
SelectTags(fn) ==
    CASE fn = "_mat_select" -> {"mat", "select", "swapped", "none"}
      [] fn = "mat_select"  -> {"mat", "none"}
      [] fn = "_select_mat" -> {"mat", "select", "none"}

FieldInit ==
    /\ unit = UnitIdle
    /\ agg = AggIdle
    /\ fill \in {FieldCall(fn, text, opts, tag, pop, <<>>) :
                    fn \in SelectFns, text \in SelectTexts, opts \in OptionLists,
                    tag \in {"mat", "select", "swapped", "none"},
                    pop \in BOOLEAN}
                \cup {FieldCall(fn, text, <<>>, tag, FALSE, content) :
                    fn \in FillFns, text \in FillValues,
                    tag \in {"input", "none"}, content \in {<<>>, <<"b">>}}
    /\ fill.fn \in SelectFns => fill.tag \in SelectTags(fill.fn)
    /\ slot = SlotIdle
    /\ BookingInit({NoRun})
    /\ stuck = None
    /\ gate = GateIdle
    /\ loc = LocIdle
    /\ det = DetIdle
    /\ poll = PollIdle

FieldDone(f, r) == [f EXCEPT !.at = "done", !.ret = r]

\* The head of the three selects: the empty-text test (unified), the
\* resolution of the control, the tag test and the click that opens it.
select_find ==
    /\ fill.at = "call"
    /\ fill.fn \in SelectFns
    /\ IF fill.fn = "_mat_select" /\ fill.text = <<>>
       THEN fill' = FieldDone(fill, "False")
       ELSE CASE fill.tag = "none" ->
                   fill' = FieldDone(fill, "False")
              [] fill.tag \in {"select", "swapped"} ->
                   fill' = [fill EXCEPT !.at = "native"]
              [] fill.tag = "mat" ->
                   \/ fill' = [fill EXCEPT !.at = "open", !.open = TRUE,
                                           !.opened = TRUE]
                   \/ fill' = [FieldDone(fill, FaultResult(fill.fn))
                                  EXCEPT !.faulted = TRUE]
    /\ UNCHANGED <<booking, stuck, gate, loc, det, poll, slot, agg, unit>>

\* _native_select (unified) / Select(el).select_by_visible_text (book_vfs)
native_select ==
    /\ fill.at = "native"
    /\ \/ LET i == IF fill.fn = "_mat_select"
                   THEN NativePick(fill.opts, fill.text)
                   ELSE VisibleTextPick(fill.opts, fill.text)
          IN  IF i = 0
              THEN fill' = FieldDone(fill, "False")
              ELSE fill' = [FieldDone(fill, "True") EXCEPT
                               !.picked = i,
                               !.content = ClickOption(@, fill.opts[i])]
       \/ fill' = [FieldDone(fill, FaultResult(fill.fn)) EXCEPT !.faulted = TRUE]
    /\ UNCHANGED <<booking, stuck, gate, loc, det, poll, slot, agg, unit>>

\* The option list the open dropdown shows within the wait.
Shown(f) == IF f.populated THEN f.opts ELSE <<>>

\* unified _mat_select from the wait for the overlay to its return
unified_mat_select ==
    /\ fill.at = "open"
    /\ fill.fn = "_mat_select"
    /\ \E stale \in SUBSET ({1, 2} \X (1..Len(Shown(fill)))),
          hard \in {"none", "read", "click", "escape"} :
         LET i == MatPick(Shown(fill), fill.text, stale)
             f == [fill EXCEPT !.faulted = @ \/ stale # {} \/ hard # "none"]
         IN  CASE hard = "read" ->
                    /\ Len(Shown(fill)) > 0
                    /\ fill' = FieldDone(f, FaultResult(fill.fn))
               [] hard = "click" ->
                    /\ i # 0
                    /\ fill' = FieldDone(f, FaultResult(fill.fn))
               [] hard = "escape" ->
                    /\ i = 0
                    /\ fill' = FieldDone(f, "False")
               [] hard = "none" ->
                    IF i # 0
                    THEN fill' = [FieldDone(f, "True") EXCEPT
                                     !.picked = i, !.open = FALSE,
                                     !.content = ClickOption(@, Shown(fill)[i])]
                    ELSE fill' = [FieldDone(f, "False") EXCEPT !.open = FALSE]
    /\ UNCHANGED <<booking, stuck, gate, loc, det, poll, slot, agg, unit>>

\* run_booking mat_select from the wait for the option to its return
rb_mat_select ==
    /\ fill.at = "open"
    /\ fill.fn = "mat_select"
    /\ \E bad \in SUBSET (1..Len(Shown(fill))),
          hard \in {"none", "click", "escape"} :
         LET located == VfsPick(Shown(fill), fill.text)
             i == RbPick(Shown(fill), fill.text, bad)
             f == [fill EXCEPT !.faulted = @ \/ bad # {} \/ hard # "none"]
         IN  CASE hard = "click" ->
                    /\ located # 0
                    /\ fill' = FieldDone(f, FaultResult(fill.fn))
               [] hard = "escape" ->
                    /\ i = 0
                    /\ fill' = FieldDone(f, FaultResult(fill.fn))
               [] hard = "none" ->
                    IF i # 0
                    THEN fill' = [FieldDone(f, "True") EXCEPT
                                     !.picked = i, !.open = FALSE,
                                     !.content = ClickOption(@, Shown(fill)[i])]
                    ELSE fill' = [FieldDone(f, "False") EXCEPT !.open = FALSE]
    /\ UNCHANGED <<booking, stuck, gate, loc, det, poll, slot, agg, unit>>

\* book_vfs _select_mat from the search for the option to its return
VFSBot_select_mat ==
    /\ fill.at = "open"
    /\ fill.fn = "_select_mat"
    /\ \E hard \in {"none", "click"} :
         LET i == VfsPick(Shown(fill), fill.text)
             f == [fill EXCEPT !.faulted = @ \/ hard # "none"]
         IN  CASE hard = "click" ->
                    /\ i # 0
                    /\ fill' = FieldDone(f, FaultResult(fill.fn))
               [] hard = "none" ->
                    IF i # 0
                    THEN fill' = [FieldDone(f, "True") EXCEPT
                                     !.picked = i, !.open = FALSE,
                                     !.content = ClickOption(@, Shown(fill)[i])]
                    ELSE fill' = FieldDone(f, "False")
    /\ UNCHANGED <<booking, stuck, gate, loc, det, poll, slot, agg, unit>>

\* The caller selects the same text on the same control once more.
select_again ==
    /\ fill.at = "done"
    /\ fill.fn \in SelectFns
    /\ fill.calls = 1
    /\ fill.ret \in {"True", "False"}
    /\ fill' = [fill EXCEPT !.at = "call", !.calls = 2, !.ret = "none",
                            !.afterFirst = fill.content, !.opened = FALSE,
                            !.picked = 0]
    /\ UNCHANGED <<booking, stuck, gate, loc, det, poll, slot, agg, unit>>

\* _js_fill / _fill_date: if not value: return False; el, matched = _wait(..)
fill_find ==
    /\ fill.at = "call"
    /\ fill.fn \in FillFns
    /\ IF fill.text = <<>> \/ fill.tag = "none"
       THEN fill' = FieldDone(fill, "False")
       ELSE fill' = [fill EXCEPT !.at = "direct"]
    /\ UNCHANGED <<booking, stuck, gate, loc, det, poll, slot, agg, unit>>

\* The native setter and the input, change and blur events.
fill_direct ==
    /\ fill.at = "direct"
    /\ \E o \in DirectOutcomes(fill.fn) :
         IF Accepted(o)
         THEN fill' = [FieldDone(fill, "True") EXCEPT !.direct = o,
                                                    !.content = fill.text]
         ELSE fill' = [fill EXCEPT !.at = "keys", !.direct = o,
                                   !.faulted = @ \/ o = "raises"]
    /\ UNCHANGED <<booking, stuck, gate, loc, det, poll, slot, agg, unit>>

\* The fallback: the field is cleared and the value sent as keys, one by
\* one in _js_fill and at once in _fill_date; n keys arrive before one
\* raises.
fill_keys ==
    /\ fill.at = "keys"
    /\ \E cleared \in BOOLEAN, n \in 0..Len(fill.text) :
         /\ ~cleared => n = 0
         /\ fill.fn = "_fill_date" => n \in {0, Len(fill.text)}
         /\ IF cleared /\ n = Len(fill.text)
            THEN fill' = [FieldDone(fill, "True") EXCEPT !.keys = "ok",
                                                       !.content = fill.text]
            ELSE fill' = [FieldDone(fill, FaultResult(fill.fn)) EXCEPT
                             !.keys = "raises", !.faulted = TRUE,
                             !.content = IF cleared
                                         THEN SubSeq(fill.text, 1, n) ELSE @]
    /\ UNCHANGED <<booking, stuck, gate, loc, det, poll, slot, agg, unit>>

FieldNext ==
    \/ select_find
    \/ native_select
    \/ unified_mat_select
    \/ rb_mat_select
    \/ VFSBot_select_mat
    \/ select_again
    \/ fill_find
    \/ fill_direct
    \/ fill_keys

FieldSpec == FieldInit /\ [][FieldNext]_vars

----------------------------------------------------------------------------
(* Parallel aggregation.  unified_booking main, not --sequential: k        *)
(* clients are submitted to the pool one after the other, each runner ends *)
(* when it ends, and main enters as_completed once all are submitted.      *)
(* as_completed first yields the futures already finished at its entry,    *)
(* from a set, and then the others in the order their completion was       *)
(* notified.  term is the order in which the runners ended, atEntry how    *)
(* many had ended when main entered as_completed.                          *)

\* The newest of the notified futures.
YieldedLast(queue) == Len(queue)

\* waiter.finished_futures, reversed and popped from the end: the oldest
YieldedNext(queue) == 1

\* book_client's result dict for client s
RunnerRec(s, status) ==
    [who |-> s, status |-> status, reference |-> "", error |-> ""]

AggInit ==
    /\ unit = UnitIdle
    /\ agg \in [at : {"submit"}, k : 1..MaxSubjects, submitted : {0},
                out : {[s \in 1..MaxSubjects |-> "idle"]}, term : {<<>>},
                atEntry : {0}, early : {{}}, queue : {<<>>},
                results : {<<>>}]
    /\ slot = SlotIdle
    /\ fill = FillIdle
    /\ BookingInit({NoRun})
    /\ stuck = None
    /\ gate = GateIdle
    /\ loc = LocIdle
    /\ det = DetIdle
    /\ poll = PollIdle

\* futures = {pool.submit(book_client, client, i, ...): i for i, client in ...}
pool_submit ==
    /\ agg.at = "submit"
    /\ agg.submitted < agg.k
    /\ agg' = [agg EXCEPT !.submitted = @ + 1,
                          !.out[agg.submitted + 1] = "running"]
    /\ UNCHANGED <<booking, stuck, gate, loc, det, poll, slot, fill, unit>>

\* book_client returns its result dict; the future is set and its waiters
\* are notified
runner_returns(s) ==
    /\ agg.out[s] = "running"
    /\ \E status \in {"BOOKED", "FAILED"} :
         agg' = [agg EXCEPT !.out[s] = status,
                            !.term = Append(@, s),
                            !.early = IF agg.at = "submit" THEN @ \cup {s} ELSE @,
                            !.queue = IF agg.at = "submit" THEN @ ELSE Append(@, s)]
    /\ UNCHANGED <<booking, stuck, gate, loc, det, poll, slot, fill, unit>>

\* for future in as_completed(futures): the finished set is taken and the
\* waiter installed
as_completed_enter ==
    /\ agg.at = "submit"
    /\ agg.submitted = agg.k
    /\ agg' = [agg EXCEPT !.at = "collect", !.atEntry = Len(agg.term)]
    /\ UNCHANGED <<booking, stuck, gate, loc, det, poll, slot, fill, unit>>

\* results.append(future.result()) for the next future as_completed yields
main_append ==
    /\ agg.at = "collect"
    /\ IF agg.early # {}
       THEN \E s \in agg.early :
              agg' = [agg EXCEPT !.early = @ \ {s},
                                 !.results = Append(@, RunnerRec(s, agg.out[s]))]
       ELSE /\ agg.queue # <<>>
            /\ LET i == YieldedNext(agg.queue)
                   s == agg.queue[i]
               IN  agg' = [agg EXCEPT
                             !.queue = SubSeq(@, 1, i - 1) \o SubSeq(@, i + 1, Len(@)),
                             !.results = Append(@, RunnerRec(s, agg.out[s]))]
    /\ UNCHANGED <<booking, stuck, gate, loc, det, poll, slot, fill, unit>>

\* Every future was yielded: the pool is left and the summary follows.
main_collected ==
    /\ agg.at = "collect"
    /\ Len(agg.results) = agg.k
    /\ agg' = [agg EXCEPT !.at = "done"]
    /\ UNCHANGED <<booking, stuck, gate, loc, det, poll, slot, fill, unit>>

AggNext ==
    \/ pool_submit
    \/ \E s \in 1..MaxSubjects : runner_returns(s)
    \/ as_completed_enter
    \/ main_append
    \/ main_collected

AggSpec == AggInit /\ [][AggNext]_vars

----------------------------------------------------------------------------
(* Login.  One session and one or two calls of do_login (unified_booking)  *)
(* or VFSBot.login (book_vfs) in it.  auth: the session's cookies are an   *)
(* authenticated session; redirects: the site sends an authenticated       *)
(* session that asks for the login page on to its landing page, so that    *)
(* the login form is not shown; valid: the credentials are accepted.       *)
(* entered and submits count the credential entries and the submits of the *)
(* call in progress, wasAuth is auth as the call began.                    *)

LoginCall(script, auth, redirects, valid) ==
    [kind |-> "login", at |-> "get", script |-> script, auth |-> auth,
     redirects |-> redirects, valid |-> valid, wasAuth |-> auth,
     form |-> FALSE, entered |-> 0, submits |-> 0, calls |-> 1,
     ret |-> "none", first |-> "none"]

LoginInit ==
    /\ unit \in {LoginCall(s, a, r, v) :
                    s \in {"unified", "book_vfs"}, a \in BOOLEAN,
                    r \in BOOLEAN, v \in BOOLEAN}
    /\ agg = AggIdle
    /\ slot = SlotIdle
    /\ fill = FillIdle
    /\ BookingInit({NoRun})
    /\ stuck = None
    /\ gate = GateIdle
    /\ loc = LocIdle
    /\ det = DetIdle
    /\ poll = PollIdle

\* The login form is on the page the browser ends on after
\* driver.get(VFS_LOGIN_URL) / self._goto(LOGIN_URL).
FormShown(u) == ~(u.auth /\ u.redirects)

\* driver.get(VFS_LOGIN_URL); _wait_cf(driver); the two _wait calls for the
\* e-mail and password fields (book_vfs: _goto, the cookie banner, the
\* e-mail selectors): False when the form is not found
login_get ==
    /\ unit.kind = "login"
    /\ unit.at = "get"
    /\ IF FormShown(unit)
       THEN unit' = [unit EXCEPT !.at = "enter", !.form = TRUE]
       ELSE unit' = [unit EXCEPT !.at = "done", !.ret = "False"]
    /\ UNCHANGED others

\* the e-mail and the password are typed (email_el.send_keys per character;
\* _human_type), and the submit control is clicked or Enter pressed
login_enter ==
    /\ unit.kind = "login"
    /\ unit.at = "enter"
    /\ \E clicked \in BOOLEAN :
         unit' = [unit EXCEPT !.at = "post", !.entered = @ + 1,
                     !.submits = IF clicked \/ unit.script = "book_vfs"
                                 THEN @ + 1 ELSE @,
                     !.auth = @ \/ (unit.valid /\
                                     (clicked \/ unit.script = "book_vfs"))]
    /\ UNCHANGED others

\* unified: post element found -> True; "/login" in url -> False; else True.
\* book_vfs: "/login" not in current_url -> True, else False.
login_result ==
    /\ unit.kind = "login"
    /\ unit.at = "post"
    /\ \E landed \in BOOLEAN :
         \* landed: the browser has left the login page
         /\ landed => unit.auth
         /\ (unit.script = "unified" /\ unit.auth) => landed
         /\ unit' = [unit EXCEPT !.at = "done",
                                 !.ret = IF landed THEN "True" ELSE "False"]
    /\ UNCHANGED others

\* Login is run once more in the same session.
login_again ==
    /\ unit.kind = "login"
    /\ unit.at = "done"
    /\ unit.calls = 1
    /\ unit' = [unit EXCEPT !.at = "get", !.calls = 2, !.first = unit.ret,
                            !.wasAuth = unit.auth, !.form = FALSE,
                            !.entered = 0, !.submits = 0, !.ret = "none"]
    /\ UNCHANGED others

LoginNext == login_get \/ login_enter \/ login_result \/ login_again

LoginSpec == LoginInit /\ [][LoginNext]_vars

----------------------------------------------------------------------------
(* What the sessions of one parallel run of unified_booking write.  Every  *)
(* session launches its browser on its profile directory, takes the        *)
(* screenshots of the wizard steps it reaches and fills its result record; *)
(* the wall clock advances between any two of these.  writes holds, per    *)
(* write, the session and the resource written.                            *)

\* The screenshots of do_step1, do_step2, do_step3 on their way through:
\* <<slug when the step's element is missing, slug when the step went on>>.
ShotSlugs == << <<"step1_fail", "step1_filled">>,
                <<"step2_fail", "step2_filled">>,
                <<"step3", "step3">> >>

\* path = SCREENSHOTS_DIR / f"{ts}_{slug}.png", ts = now.strftime("%H%M%S")
ShotPath(ts, slug) == <<"screenshots", ts, slug>>

\* profile = os.path.join(CHROME_PROFILE, f"client_{idx}")
ProfilePath(idx) == <<"profile", ProfileOf(idx)>>

\* result = {"name": ..., "email": ..., "status": "FAILED", ...}, a new dict
\* of each call of book_client
ResultRecord(idx) == <<"result", idx>>

ShotInit ==
    /\ \E k \in 1..MaxRows :
          unit = [kind |-> "shots", at |-> "run", k |-> k, now |-> 0,
                  step |-> [s \in 1..k |-> 0], writes |-> {}]
    /\ agg = AggIdle
    /\ slot = SlotIdle
    /\ fill = FillIdle
    /\ BookingInit({NoRun})
    /\ stuck = None
    /\ gate = GateIdle
    /\ loc = LocIdle
    /\ det = DetIdle
    /\ poll = PollIdle

\* the dict is built, then driver = launch_driver(visible, profile_dir=profile)
session_launch(s) ==
    /\ unit.kind = "shots"
    /\ unit.step[s] = 0
    /\ unit' = [unit EXCEPT !.step[s] = 1,
                            !.writes = @ \cup {[by |-> s, res |-> ResultRecord(s)],
                                               [by |-> s, res |-> ProfilePath(s)]}]
    /\ UNCHANGED others

\* _screenshot(driver, slug) of the step the session is at; the step that
\* misses its element returns False and the session goes to its end
session_screenshot(s) ==
    /\ unit.kind = "shots"
    /\ unit.step[s] \in 1..Len(ShotSlugs)
    /\ \E ok \in BOOLEAN :
         LET slug == ShotSlugs[unit.step[s]][IF ok THEN 2 ELSE 1]
         IN  unit' = [unit EXCEPT
                        !.step[s] = IF ok THEN @ + 1 ELSE Len(ShotSlugs) + 1,
                        !.writes = @ \cup {[by |-> s,
                                            res |-> ShotPath(unit.now, slug)]}]
    /\ UNCHANGED others

\* result["status"] = ...; return result
session_return(s) ==
    /\ unit.kind = "shots"
    /\ unit.step[s] = Len(ShotSlugs) + 1
    /\ unit' = [unit EXCEPT !.step[s] = Len(ShotSlugs) + 2,
                            !.writes = @ \cup {[by |-> s, res |-> ResultRecord(s)]}]
    /\ UNCHANGED others

\* a second passes on the wall clock
clock_second ==
    /\ unit.kind = "shots"
    /\ unit.now < MaxShotClock
    /\ unit' = [unit EXCEPT !.now = @ + 1]
    /\ UNCHANGED others

ShotNext ==
    \/ \E s \in 1..MaxRows :
          /\ unit.kind = "shots"
          /\ s <= unit.k
          /\ (session_launch(s) \/ session_screenshot(s) \/ session_return(s))
    \/ clock_second

ShotSpec == ShotInit /\ [][ShotNext]_vars

----------------------------------------------------------------------------
(* The operator's interrupt.  Ctrl-C raises KeyboardInterrupt in the main  *)
(* thread, at the call the main thread is in.  A script's runner is        *)
(* suspended at one of its suspension points with `left` passes of its     *)
(* wait still to go; unified_booking without --sequential runs its         *)
(* runners in pool threads, the main thread waiting in as_completed.       *)
(* after[s] counts the passes runner s completes after the interrupt.      *)

SuspensionPoints(script) ==
    IF script = "unified"
    THEN {"locator_wait", "challenge_wait", "pacing_delay"}
    ELSE {"locator_wait", "challenge_wait", "pacing_delay", "poll_sleep"}

CancelInit ==
    /\ \E script \in {"unified", "book_vfs"}, pool \in BOOLEAN, k \in 1..MaxRows :
          /\ pool => script = "unified"
          /\ ~pool => k = 1
          /\ \E point \in [1..k -> SuspensionPoints(script)],
                left \in [1..k -> 1..MaxWait] :
                unit = [kind |-> "cancel", script |-> script, pool |-> pool,
                        k |-> k, point |-> point, left |-> left,
                        st |-> [s \in 1..k |-> "suspended"],
                        after |-> [s \in 1..k |-> 0],
                        interrupted |-> FALSE, main |-> "running"]
    /\ agg = AggIdle
    /\ slot = SlotIdle
    /\ fill = FillIdle
    /\ BookingInit({NoRun})
    /\ stuck = None
    /\ gate = GateIdle
    /\ loc = LocIdle
    /\ det = DetIdle
    /\ poll = PollIdle

\* time.sleep(...) returns in the runner's thread and the loop takes its
\* next pass, or finds its deadline passed and returns
sleep_returns(s) ==
    /\ unit.kind = "cancel"
    /\ unit.st[s] = "suspended"
    /\ unit' = [unit EXCEPT
                  !.left[s] = @ - 1,
                  !.st[s] = IF unit.left[s] = 1 THEN "returned" ELSE @,
                  !.after[s] = IF unit.interrupted THEN @ + 1 ELSE @]
    /\ UNCHANGED others

\* KeyboardInterrupt in the main thread: no handler catches it ('except
\* Exception' does not), the 'finally' blocks run.  The main thread is the
\* runner itself, or it is inside 'with ThreadPoolExecutor(...) as pool',
\* whose exit is shutdown(wait=True).
operator_interrupt ==
    /\ unit.kind = "cancel"
    /\ ~unit.interrupted
    /\ unit.main = "running"
    /\ unit' = [unit EXCEPT
                  !.interrupted = TRUE,
                  !.main = "raised",
                  !.st = IF unit.pool THEN @
                         ELSE [s \in 1..unit.k |->
                                 IF @[s] = "suspended" THEN "stopped" ELSE @[s]]]
    /\ UNCHANGED others

\* the script ends: the exception leaves main once the pool's threads have
\* been joined, or main returns after its summary
main_exits ==
    /\ unit.kind = "cancel"
    /\ unit.main \in {"running", "raised"}
    /\ \A s \in 1..unit.k : unit.st[s] # "suspended"
    /\ unit' = [unit EXCEPT !.main = "exited"]
    /\ UNCHANGED others

CancelNext ==
    \/ \E s \in 1..MaxRows :
          /\ unit.kind = "cancel"
          /\ s <= unit.k
          /\ sleep_returns(s)
    \/ operator_interrupt
    \/ main_exits

CancelSpec == CancelInit /\ [][CancelNext]_vars

----------------------------------------------------------------------------
(* Dates.  _norm_date applied to a date string of the CSV, and applied     *)
(* again to what it returned.  A string is the sequence of its characters. *)

DecimalDigits == <<"0", "1", "2", "3", "4", "5", "6", "7", "8", "9">>

IsDigit(c) == \E i \in 1..10 : DecimalDigits[i] = c

DigitValue(c) == (CHOOSE i \in 1..10 : DecimalDigits[i] = c) - 1

\* int(s) of a two-character string raises ValueError unless s is two
\* digits, or one digit with a blank or a sign before it, or one digit with
\* a blank after it
IntRaises(s) ==
    ~ \/ IsDigit(s[1]) /\ IsDigit(s[2])
      \/ s[1] \in {" ", "+", "-"} /\ IsDigit(s[2])
      \/ IsDigit(s[1]) /\ s[2] = " "

\* int(s) where it does not raise
IntOf(s) ==
    IF IsDigit(s[1]) /\ IsDigit(s[2]) THEN 10 * DigitValue(s[1]) + DigitValue(s[2])
    ELSE IF IsDigit(s[1]) THEN DigitValue(s[1])
    ELSE IF s[1] = "-" THEN 0 - DigitValue(s[2])
    ELSE DigitValue(s[2])

\* str.strip(): the blanks at both ends removed
RECURSIVE Strip(_)
Strip(s) ==
    IF s = <<>> THEN s
    ELSE IF Head(s) = " " THEN Strip(Tail(s))
    ELSE IF s[Len(s)] = " " THEN Strip(SubSeq(s, 1, Len(s) - 1))
    ELSE s

\* What stands for an exception leaving _norm_date.
ValueError == <<"ValueError">>

\* _norm_date(raw); 'int(d) <= 31 and int(m) <= 12' evaluates int(m) only
\* when int(d) <= 31
NormDate(raw) ==
    LET r == Strip(raw)
    IN  IF r = <<>> THEN r
        ELSE IF Len(r) = 10 /\ r[3] = "/" /\ r[6] = "/"
        THEN LET d == SubSeq(r, 1, 2)
                 m == SubSeq(r, 4, 5)
                 y == SubSeq(r, 7, 10)
             IN  IF IntRaises(d) THEN ValueError
                 ELSE IF IntOf(d) > 31 THEN m \o <<"/">> \o d \o <<"/">> \o y
                 ELSE IF IntRaises(m) THEN ValueError
                 ELSE IF IntOf(m) <= 12 THEN r
                 ELSE m \o <<"/">> \o d \o <<"/">> \o y
        ELSE IF Len(r) = 10 /\ r[5] = "-" /\ r[8] = "-"
        THEN LET y == SubSeq(r, 1, 4)
                 m == SubSeq(r, 6, 7)
                 d == SubSeq(r, 9, 10)
             IN  d \o <<"/">> \o m \o <<"/">> \o y
        ELSE r

\* date_of_birth / passport_expiry as the CSV may hold them.  The
\* two-character fields enumerated are days and months in and out of
\* range, a blank-padded one and a non-numeric one.
DateInputs ==
    LET TwoChars == { <<"0", "5">>, <<"1", "2">>, <<"1", "3">>, <<"2", "5">>,
                      <<"3", "1">>, <<"3", "2">>, <<"4", "0">>, <<" ", "5">>,
                      <<"x", "x">> }
        Years == { <<"2", "0", "2", "0">>, <<"1", "9", "9", "9">> }
    IN  {a \o <<"/">> \o b \o <<"/">> \o y :
            a \in TwoChars, b \in TwoChars, y \in Years}
        \cup {y \o <<"-">> \o a \o <<"-">> \o b :
            a \in TwoChars, b \in TwoChars, y \in Years}
        \cup { <<>>, <<" ", " ">>, <<"2", "0", "2", "0">>,
               <<" ", "0", "5", "/", "2", "5", "/", "2", "0", "2", "0", " ">>,
               <<"2", "5", ".", "0", "5", ".", "2", "0", "2", "0">> }

NormInit ==
    /\ \E x \in DateInputs :
          unit = [kind |-> "norm", at |-> "in", x |-> x,
                  once |-> <<>>, twice |-> <<>>]
    /\ agg = AggIdle
    /\ slot = SlotIdle
    /\ fill = FillIdle
    /\ BookingInit({NoRun})
    /\ stuck = None
    /\ gate = GateIdle
    /\ loc = LocIdle
    /\ det = DetIdle
    /\ poll = PollIdle

\* dob = _norm_date(client.get("date_of_birth", ""))
norm_date ==
    /\ unit.kind = "norm"
    /\ unit.at = "in"
    /\ unit' = [unit EXCEPT !.once = NormDate(unit.x),
                            !.at = IF NormDate(unit.x) = ValueError
                                   THEN "raised" ELSE "once"]
    /\ UNCHANGED others

\* _norm_date of what _norm_date returned
norm_date_again ==
    /\ unit.kind = "norm"
    /\ unit.at = "once"
    /\ unit' = [unit EXCEPT !.twice = NormDate(unit.once), !.at = "twice"]
    /\ UNCHANGED others

NormNext == norm_date \/ norm_date_again

NormSpec == NormInit /\ [][NormNext]_vars

----------------------------------------------------------------------------
(* The waits together: one call site of the Cloudflare wait, or one        *)
(* lookup, or one run of the monitor, the thread that is in the wait       *)
(* taking its next step whenever it has one.  The page may change under a  *)
(* lookup as often as it likes.                                            *)

WaitsInit == GateInit \/ LocInit \/ PollInit

WaitsNext == GateNext \/ LocNext \/ PollNext

WaitsLive ==
    /\ WaitsInit /\ [][WaitsNext]_vars
    /\ WF_vars(GateNext)
    /\ WF_vars(wait_probe \/ wait_sleep \/ fill_input_find_el)
    /\ WF_vars(PollNext)

----------------------------------------------------------------------------
(* Properties                                                              *)

Unified == cfg.script = "unified"

\* An explicit confirmation marker is on the page: a reference-bearing
\* element or a positive confirmation phrase.
ConfirmationMarker(p) == p.ref \/ p.phrase

\* Subject s's run was started / has ended.
Dispatched(s) == pc[s] # "idle"
Terminated(s) == pc[s] \in {"returned", "raised", "collected"}

\* Subject s's run ended, or is ending, in failure.
RunFailed(s) ==
    /\ pc[s] \in {"finally", "finally_raise", "returned", "raised", "collected"}
    /\ result[s].status = "FAILED"

\* Runner r has returned to its caller.
RunnerReturned(r) ==
    IF r = 0 THEN phase \in {"done", "exited", "crashed", "rb_quit", "rb_summary"}
    ELSE Terminated(r)

\* Times step k was executed for subject s.
Attempts(s, k) == Cardinality({i \in DOMAIN ran[s] : ran[s][i] = k})

StepError(k) ==
    IF k = 1 THEN "Step 1 (Appointment Details) failed"
    ELSE "Step 2 (Your Details) failed"

\* The wizard step a position stands for (0 for the other positions).
StepOf(p) ==
    CASE p = "step1" -> 1 [] p = "step2" -> 2 [] p = "step3" -> 3
      [] p = "step4" -> 4 [] p = "step5" -> 5 [] OTHER -> 0

\* C1. Orchestrator completeness: when unified main reaches its summary, the
\* results list holds exactly one record per client, len(clients) in all,
\* in both disciplines and whatever each subject's outcome was.
OrchestratorCompleteness ==
    (Unified /\ phase = "summary") =>
        /\ Len(results) = NumClients
        /\ \A s \in Clients :
             Cardinality({i \in 1..Len(results) : results[i].who = s}) = 1

\* C1 witness: a parallel run of two reached the summary with one subject
\* ended by an exception and another booked.
OrchestratorCompletenessWitness ==
    /\ Unified /\ ~cfg.sequential /\ phase = "summary" /\ NumClients = 2
    /\ \E i, j \in 1..Len(results) :
         results[i].error = "exception" /\ results[j].status = "BOOKED"

\* C2. Failure containment: while or after one subject's run fails (login,
\* step, exception), main is not brought down, every other client not yet
\* started is still due to be started by the running loop, and at the
\* summary every other client has its own result in the list.
FailureContainment ==
    Unified =>
      \A s \in Clients : RunFailed(s) =>
        /\ phase # "crashed"
        /\ \A t \in Clients \ {s} :
             /\ pc[t] = "idle" =>
                  (phase = "running" /\ cfg.sequential /\ next <= t)
             /\ phase = "summary" =>
                  (\E i \in 1..Len(results) : results[i] = Rec(t, result[t]))

\* C2 witness: sequential run; subject 1 ended by an exception, subject 2
\* was then started, booked and collected.
FailureContainmentWitness ==
    /\ Unified /\ cfg.sequential /\ phase = "summary" /\ NumClients = 2
    /\ result[1].error = "exception"
    /\ result[2].status = "BOOKED"
    /\ results = <<Rec(1, result[1]), Rec(2, result[2])>>

\* C3. The summary is emitted only after every dispatched run has ended.
SummaryAfterAllTerminated ==
    (Unified /\ phase = "summary") =>
        \A s \in Subjects : Dispatched(s) => Terminated(s)

\* C3 witness: parallel run of two at the summary, the second subject having
\* completed first.
SummaryAfterAllTerminatedWitness ==
    /\ Unified /\ ~cfg.sequential /\ phase = "summary" /\ NumClients = 2
    /\ Len(results) = 2 /\ results[1].who = 2
    /\ \A s \in Clients : Terminated(s)

ContextIsolation ==
    \A c \in CtxIds : Cardinality(used[c]) <= 1

\* C6. No implicit skipping: a run stands at step k+1 only with steps 1..k
\* executed in order and none of their advances having failed.
NoImplicitSkip ==
    \A s \in Subjects : (Unified /\ StepOf(pc[s]) > 0) =>
        /\ ran[s] = [i \in 1..(StepOf(pc[s]) - 1) |-> i]
        /\ failedStep[s] = 0

\* C7. StepAdvanceFailed: a run in which some step's advance did not
\* succeed ends with status FAILED.
AdvanceFailedIsFailed ==
    \A s \in Subjects : (Unified /\ Terminated(s) /\ failedStep[s] # 0) =>
        result[s].status = "FAILED"

AmbiguousIsSubmitted ==
    \A s \in Subjects :
        (/\ cfg.script \in {"unified", "run_booking"}
         /\ Terminated(s) /\ failedStep[s] = 0
         /\ page[s].url = "off" /\ ~page[s].ref)
            => result[s] = [status |-> "SUBMITTED", reference |-> "", error |-> ""]

\* C10. No unverified success: BOOKED is reported only with an explicit
\* confirmation marker on the final page.
NoUnverifiedSuccess ==
    \A s \in Subjects :
        result[s].status = "BOOKED" => ConfirmationMarker(page[s])

TimedOutProceeds ==
    (gate.at = "done" /\ gate.out = "TimedOut") => gate.next = "proceed"

\* C13. The Cloudflare wait is bounded: it returns Cleared at a check at
\* which no marker matched, no earlier check having seen a clear page (no
\* wait outlasts a clear page); it returns TimedOut only with no clear page
\* seen and the ceiling elapsed, overrunning it by less than one pass of
\* the loop; and once entered it always returns, also when the marker stays
\* and when every read of the page raises.
AwaitClearanceBounded ==
    /\ [](gate.at \in {"wait", "return", "done"} =>
            LET n == Len(gate.seen)
            IN  /\ \A i \in 1..(n - 1) : gate.seen[i] # "clear"
                /\ gate.out = "Cleared" => (n > 0 /\ gate.seen[n] # "marker")
                /\ (n > 0 /\ gate.seen[n] = "clear") => gate.out = "Cleared"
                /\ gate.out = "TimedOut" =>
                     /\ gate.now >= gate.deadline
                     /\ gate.now <= gate.deadline + 1)
    /\ (gate.at = "wait") ~> (gate.out # "none")

\* C13 witness: _wait_cf returned False at its deadline, every read of the
\* page having raised.
AwaitClearanceBoundedWitness ==
    /\ gate.at = "done" /\ gate.site = "unified.do_login"
    /\ gate.out = "TimedOut"
    /\ Len(gate.seen) >= 2
    /\ \A i \in 1..Len(gate.seen) : gate.seen[i] = "raise"

\* C14. The challenge test follows every page load before anything is
\* looked up on the page, and is made nowhere else.
GateAfterEveryNavigation ==
    \A i \in 1..Len(gate.trace) :
        /\ (gate.trace[i] = "nav" /\ i < Len(gate.trace)) =>
              gate.trace[i + 1] = "gate"
        /\ gate.trace[i] = "gate" => (i > 1 /\ gate.trace[i - 1] = "nav")

\* The selectors of the list that match a visible element on the page.
Matching == {c \in 1..loc.n : loc.dom[c] = "visible"}

\* C15. Order-respecting lookup: on a static page where some selector of
\* the list matches a visible element, the lookup returns an element, that
\* of the first such selector in the order of the list.
OrderRespectingResolution ==
    (loc.at = "done" /\ loc.static /\ Matching # {}) =>
        /\ loc.ret \in Matching
        /\ \A c \in Matching : loc.ret <= c

\* C15 witness: static page, first selector hidden, second and third
\* visible: the second was returned.
OrderRespectingResolutionWitness ==
    /\ loc.at = "done" /\ loc.static /\ loc.fn = "_wait" /\ loc.n = 3
    /\ loc.dom = <<"hidden", "visible", "visible">>
    /\ loc.ret = 2

\* C16. Per-candidate budget: a selector is probed, or returned, only once
\* the budget of every selector before it in the list is exhausted.
PerCandidateBudget ==
    \A c \in 1..loc.n :
        (loc.last[c] # "unprobed" \/ loc.ret = c) =>
            \A e \in 1..(c - 1) : e \in loc.spent

SelectorMatch(script, p) ==
    IF script = "run_booking" THEN p.shown ELSE p.els > 0

\* C18. Negative-phrase precedence: a page whose content holds a
\* no-availability phrase is unavailable, whatever slot elements or positive
\* phrases it holds besides.
NegativePhrasePrecedence ==
    (det.at = "done" /\ det.page.negative) => det.out = "unavailable"

\* C18 witness: run_booking.slots_available on a readable page with a
\* no-availability phrase, a displayed slot element and a positive phrase.
NegativePhrasePrecedenceWitness ==
    /\ det.at = "done" /\ det.script = "run_booking"
    /\ det.page.readable /\ det.page.negative
    /\ det.page.shown /\ det.page.phrase
    /\ det.out = "unavailable"

PollerBoundedResponse ==
    /\ (poll.at = "done" /\ poll.appear # None /\ poll.errors = 0) =>
          /\ poll.out = "Available"
          /\ poll.now <= poll.appear + poll.interval + poll.work
    /\ poll.out = "Available" => poll.now = poll.seenAt

\* The shortest sleep between two cycles.
MinSleep == CHOOSE d \in Sleeps(poll.script, poll.interval) :
                \A e \in Sleeps(poll.script, poll.interval) : d <= e

\* The monitor of C21: a window of four intervals, no poll raising, the
\* signal absent when cycles 1 to 3 asked and present by the time a fourth
\* cycle asks.
FourIntervalScenario ==
    /\ poll.at = "done"
    /\ poll.deadline = 4 * poll.interval
    /\ poll.errors = 0
    /\ Len(poll.times) >= 3
    /\ poll.appear # None
    /\ poll.times[3] < poll.appear
    /\ poll.appear <= poll.times[3] + MinSleep + poll.work

SlotIndexIsOrdinalModCount ==
    \E base \in {0, 1} :
        \A e \in slot.picks :
            e.n >= 1 => (e.idx = (e.pos + base) % e.n /\ e.idx \in 0..(e.n - 1))

\* C23. Slot spreading: when the k subjects of a run all found the same N
\* slots and k <= N, no two of them clicked the same index.
SlotsSpread ==
    (/\ slot.at = "done"
     /\ \E N \in slot.k..MaxSlots : \A e \in slot.picks : e.n = N)
        => \A e1, e2 \in slot.picks : e1.pos # e2.pos => e1.idx # e2.idx

\* The options of the control whose text equals the requested text, case
\* apart, and the first option whose text contains it.
ExactOptions(f) == {i \in 1..Len(f.opts) : Lower(f.opts[i]) = Lower(f.text)}
FirstContaining(f) ==
    CHOOSE i \in 1..Len(f.opts) :
        /\ Contains(Lower(f.opts[i]), Lower(f.text))
        /\ \A j \in 1..(i - 1) : ~Contains(Lower(f.opts[j]), Lower(f.text))

\* C24. selectOption matching: a call on a dropdown that selected an option,
\* no browser call having failed, selected an option whose text equals the
\* requested text case-insensitively if there is one, and otherwise the
\* first option containing the text.
ExactMatchWins ==
    (/\ fill.at = "done" /\ fill.fn \in {"_mat_select", "mat_select"}
     /\ fill.tag = "mat" /\ fill.ret = "True" /\ ~fill.faulted)
        => IF ExactOptions(fill) # {}
           THEN fill.picked \in ExactOptions(fill)
           ELSE fill.picked = FirstContaining(fill)

\* C25. No dropdown left open: when a call that opened the dropdown has
\* returned, the dropdown is closed, and the call that matched no option
\* reported failure.
DropdownClosedOnExit ==
    (fill.at = "done" /\ fill.fn \in SelectFns /\ fill.opened)
        => (~fill.open /\ (fill.picked = 0 => fill.ret = "False"))

\* C26. Totality: a call of _js_fill, _fill_date or _mat_select that has
\* ended, whatever the page and whichever browser calls failed, has returned
\* a boolean: no exception left the filler.
FillersTotal ==
    (fill.at = "done" /\ fill.fn \in {"_js_fill", "_fill_date", "_mat_select"})
        => fill.ret \in {"True", "False"}

\* C26 witness: _mat_select returned False after a browser call failed with
\* the dropdown open.
FillersTotalWitness ==
    /\ fill.at = "done" /\ fill.fn = "_mat_select"
    /\ fill.faulted /\ fill.opened /\ fill.ret = "False"

FillChannelFallback ==
    fill.fn \in FillFns =>
        /\ fill.keys # "none" => fill.direct \in {"false", "raises"}
        /\ (fill.at = "done" /\ fill.direct \in {"false", "raises"})
              => fill.keys # "none"
        /\ fill.at = "done"
              => (fill.ret = "True" <=> (fill.direct = "ok" \/ fill.keys = "ok"))

\* C28 witness: _js_fill's script returned false and the keys went through.
FillChannelFallbackWitness ==
    /\ fill.at = "done" /\ fill.fn = "_js_fill"
    /\ fill.direct = "false" /\ fill.keys = "ok"
    /\ fill.ret = "True" /\ fill.content = fill.text

\* The smaller of the rows loaded and the configured maximum.
FanOut == IF cfg.rows < cfg.max_clients THEN cfg.rows ELSE cfg.max_clients

TermPos(s) == CHOOSE i \in 1..Len(agg.term) : agg.term[i] = s

\* Each record of the results list is the record its own runner returned.
OwnRecords ==
    \A i \in 1..Len(agg.results) :
        /\ agg.out[agg.results[i].who] = agg.results[i].status
        /\ \A j \in 1..Len(agg.results) : agg.results[j].who = agg.results[i].who => j = i

\* C30 as stated. The results list of a parallel run is in the order in
\* which the runners ended, in every interleaving, and every record is its
\* own subject's.
CompletionOrder ==
    /\ \A i, j \in 1..Len(agg.results) :
         i < j => TermPos(agg.results[i].who) < TermPos(agg.results[j].who)
    /\ OwnRecords

\* C30 as amended. The records of the runners that ended after main entered
\* as_completed are in the order in which those runners ended, and follow
\* the records of the runners that had ended before, which come in any
\* order; every record is its own subject's.
CompletionOrderOnceCollecting ==
    /\ \A i, j \in 1..Len(agg.results) :
         (i < j /\ TermPos(agg.results[i].who) > TermPos(agg.results[j].who))
            => TermPos(agg.results[i].who) <= agg.atEntry
    /\ OwnRecords

\* C30 witness: three runners, the first submitted ended last; the second
\* ended before main entered as_completed and the third after: the results
\* list is in the order 2, 3, 1.
CompletionOrderOnceCollectingWitness ==
    /\ agg.at = "done" /\ agg.k = 3
    /\ agg.term = <<2, 3, 1>> /\ agg.atEntry = 1
    /\ agg.results[1].who = 2 /\ agg.results[2].who = 3 /\ agg.results[3].who = 1
    /\ agg.results[1].status = "BOOKED" /\ agg.results[2].status = "FAILED"

\* Subject s's run has been started and has not ended.
Active(s) == Dispatched(s) /\ ~Terminated(s)

LoginSkipsWhenAuthenticated ==
    (unit.kind = "login" /\ unit.at = "done" /\ unit.wasAuth) =>
        (unit.entered = 0 /\ unit.submits = 0 /\ unit.ret = "True")

\* The wizard was entered for subject s.
WizardRan(s) == IF Unified THEN ran[s] # <<>> ELSE Dispatched(s)

\* C33. Poll before wizard: the wizard is entered for a subject only once
\* the availability monitor has been run and has seen slots; a script in
\* which no poll was made has entered no wizard.
WizardOnlyAfterAvailable ==
    \A s \in Subjects : WizardRan(s) => polls >= 1

\* The wait, the lookup and the monitor have all come to their end (or
\* were never started).
Settled ==
    /\ gate.at \in {"idle", "done"}
    /\ loc.at \in {"idle", "done"}
    /\ poll.at \in {"idle", "done"}

NoSharedWrites ==
    \A w1 \in unit.writes : \A w2 \in unit.writes :
        w1.res = w2.res => w1.by = w2.by

\* C36. After the operator's interrupt a suspended runner stops at the
\* point it is suspended at: it completes no further pass of its wait.
CancelStopsRunner ==
    \A s \in 1..unit.k : unit.after[s] = 0

\* A result record with one of the three statuses, a reference exactly when
\* BOOKED and an error only when FAILED.
Consistent(r) ==
    /\ r.status \in {"BOOKED", "SUBMITTED", "FAILED"}
    /\ (r.reference # "") <=> (r.status = "BOOKED")
    /\ (r.error # "") => (r.status = "FAILED")

\* C37. In unified_booking every result record, while book_client fills it
\* and once main has appended it, has status BOOKED, SUBMITTED or FAILED,
\* a non-empty reference exactly when BOOKED and a non-empty error only
\* when FAILED.
ResultRecordConsistent ==
    Unified =>
        /\ \A s \in Clients : Consistent(result[s])
        /\ \A i \in 1..Len(results) : Consistent(results[i])

\* C37 witness: main has collected a BOOKED record with its reference and a
\* FAILED record with its error.
ResultRecordConsistentWitness ==
    /\ Unified
    /\ \E i \in 1..Len(results), j \in 1..Len(results) :
          /\ results[i].status = "BOOKED" /\ results[i].reference # ""
          /\ results[j].status = "FAILED" /\ results[j].error # ""

\* The positions of book_client after the login: the navigation to the
\* booking form and the five steps.
WizardPcs == {"nav", "step1", "step2", "step3", "step4", "step5"}

SummaryAccounting ==
    (cfg.script = "book_vfs" /\ phase = "vfs_summary") =>
        /\ booked + failed = NumClients
        /\ \A s \in Clients : ran[s] = <<s - 1>>
        /\ \A s \in Subjects \ Clients : ran[s] = <<>>

\* C39 witness: a summary over two clients or more, one booked and one
\* failed among them.
SummaryAccountingWitness ==
    /\ cfg.script = "book_vfs" /\ phase = "vfs_summary"
    /\ NumClients >= 2
    /\ booked >= 1 /\ failed >= 1

\* C40. _norm_date is idempotent: wherever it returns, applying it to what
\* it returned returns the same string.
NormDateIdempotent ==
    unit.at = "twice" => unit.twice = unit.once

====
